---- MODULE Spec2Model ----
(***************************************************************************)
(* DashTrack (scotystobbe/dashtrack): the shift form, the derived-field    *)
(* calculation and the record collection of the Supabase version of        *)
(* app.js (src/app.js lines 853-2179).                                     *)
(*                                                                         *)
(* Conventions                                                             *)
(*  - a JavaScript string is a sequence of one-character strings;          *)
(*  - a JavaScript number is an exact rational [n, d] with d > 0 in lowest *)
(*    terms, and NaN is [n |-> 0, d |-> 0].  Binary rounding of doubles    *)
(*    and the infinities are not modelled;                                 *)
(*  - indices into entries are 0-based as in the code (entries[i] is       *)
(*    entries[i + 1] here).                                                *)
(***************************************************************************)
EXTENDS Integers, Sequences, FiniteSets, TLC

VARIABLES
  entries,          \* let entries: the in-memory collection
  editingIndex,     \* let editingIndex (-1: not editing)
  isSettingUpEdit,  \* let isSettingUpEdit
  form,             \* the values of the form's inputs and its break rows
  disp,             \* the text of the computed fields the submit handler reads
  deleteBtn,        \* the index the form's 'Delete Shift' button closed over, -1: no button
  table,            \* the rows renderEntries last drew
  cloud,            \* the rows of the Supabase table, oldest first
  nextId,           \* the next value of the table's SERIAL id
  local,            \* localStorage 'dashtrack_entries' (<<>>: never written)
  faults,           \* how many storage calls have failed so far
  mock,             \* supabase is the mock client supabase.js falls back to
  overlap,          \* how many storage calls the user lets be in flight at once
  pending,          \* storage calls awaited, each with the UI code that follows it
  raised,           \* the last handler run ended in an uncaught exception
  submitted,        \* what the handler that just ran built, if it was a submit that got that far
  ended,            \* how the handler that just ran ended, if it was one that can end early or fail
  tin,        \* SpecTime: the parts the two time strings are built from
  tParsed,    \* SpecTime: parseTimeToMinutes(start string)
  tDiff,      \* SpecTime: calculateTimeDifferenceMinutes(start, end)
  tDone,      \* SpecTime: which of the two functions have been applied
  behind,     \* the browser's time zone is behind UTC (UTC midnight is the evening before)
  wDate,      \* SpecWeek: entry.date of one record
  wNow,       \* SpecWeek: the local date new Date() gave updateSummaries
  wKeys,      \* SpecWeek: the week and year updateSummaries compared, <<>> before it ran
  sEntries,         \* SpecSummary: the collection, each entry with the fields updateSummaries reads
  showGrossValues,  \* let showGrossValues
  summary,          \* SpecSummary: the text of the three summary elements and the sums behind it
  backup,     \* SpecImport: the entries array of the file exportToJson last wrote, <<>>: none
  restored,   \* SpecImport: the file of the last import and the collection it met, <<>>: none
  worker,     \* the service worker's state: installing, installed, activated or redundant
  cacheStore, \* CacheStorage of the origin: cache name -> (URL -> version of the body stored)
  server,     \* the version of the files the server now serves
  fetched     \* the request of the fetch event just handled and the response to it, <<>>: none

tvars == <<tin, tParsed, tDiff, tDone>>

avars == <<entries, editingIndex, isSettingUpEdit, form, disp, deleteBtn, table,
           cloud, nextId, local, faults, pending, raised, submitted, ended>>

\* what updateSummaries reads besides the collection
uvars == <<behind, wDate, wNow, wKeys, sEntries, showGrossValues>>

wvars == <<uvars, summary>>

bvars == <<backup, restored>>

kvars == <<worker, cacheStore, server, fetched>>

vars == <<avars, mock, overlap, tvars, wvars, bvars, kvars>>

----------------------------------------------------------------------------
(* Strings *)

Digits == <<"0", "1", "2", "3", "4", "5", "6", "7", "8", "9">>

IsDigit(c) == \E i \in 1..10 : Digits[i] = c

DigitVal(c) == (CHOOSE i \in 1..10 : Digits[i] = c) - 1

\* JavaScript white space as far as the inputs of this model contain it
IsSpace(c) == c \in {" ", "\t"}

RECURSIVE TrimLeft(_)
TrimLeft(s) ==
  IF s # <<>> /\ IsSpace(Head(s)) THEN TrimLeft(Tail(s)) ELSE s

RECURSIVE TrimRight(_)
TrimRight(s) ==
  IF s # <<>> /\ IsSpace(s[Len(s)]) THEN TrimRight(SubSeq(s, 1, Len(s) - 1))
  ELSE s

\* String.prototype.trim
Trim(s) == TrimRight(TrimLeft(s))

UpperChar(c) ==
  CASE c = "a" -> "A"
    [] c = "m" -> "M"
    [] c = "p" -> "P"
    [] c = "b" -> "B"
    [] c = "c" -> "C"
    [] c = "x" -> "X"
    [] OTHER -> c

\* String.prototype.toUpperCase over the letters the inputs contain
ToUpperCase(s) == [i \in 1..Len(s) |-> UpperChar(s[i])]

----------------------------------------------------------------------------
(* Numbers *)

RECURSIVE GCD(_, _)
GCD(a, b) == IF b = 0 THEN a ELSE GCD(b, a % b)

Abs(a) == IF a < 0 THEN -a ELSE a

\* n/d with the common divisor g taken out and the sign in the numerator
Reduced(n, d, g) ==
  IF d < 0 THEN [n |-> -(n \div g), d |-> -(d \div g)]
  ELSE [n |-> n \div g, d |-> d \div g]

\* the rational n/d (d # 0) in lowest terms with a positive denominator
Rat(n, d) == Reduced(n, d, GCD(Abs(n), Abs(d)))

NaN == [n |-> 0, d |-> 0]

isNaN(x) == x.d = 0

Zero == Rat(0, 1)

FromInt(k) == Rat(k, 1)

Minus(x, y) ==
  IF isNaN(x) \/ isNaN(y) THEN NaN ELSE Rat(x.n * y.d - y.n * x.d, x.d * y.d)

Plus(x, y) ==
  IF isNaN(x) \/ isNaN(y) THEN NaN ELSE Rat(x.n * y.d + y.n * x.d, x.d * y.d)

Times(x, y) ==
  IF isNaN(x) \/ isNaN(y) THEN NaN ELSE Rat(x.n * y.n, x.d * y.d)

\* x / y; the code never divides by zero on the paths modelled (the
\* infinities are outside the model), 0/0 is NaN
Over(x, y) ==
  IF isNaN(x) \/ isNaN(y) \/ y.n = 0 THEN NaN ELSE Rat(x.n * y.d, x.d * y.n)

Less(x, y) == ~isNaN(x) /\ ~isNaN(y) /\ x.n * y.d < y.n * x.d

\* the JavaScript idiom  x || 0  on a number: NaN and 0 give 0
OrZero(x) == IF isNaN(x) \/ x.n = 0 THEN Zero ELSE x

\* floor of a rational
Floor(x) == x.n \div x.d

\* Math.round: the nearest integer, a tie going up
MathRound(x) == Floor(Plus(x, Rat(1, 2)))

RECURSIVE Pow10(_)
Pow10(k) == IF k = 0 THEN 1 ELSE 10 * Pow10(k - 1)

----------------------------------------------------------------------------
(* Numbers to text and back *)

RECURSIVE NatToString(_)
NatToString(k) ==
  IF k < 10 THEN <<Digits[k + 1]>>
  ELSE NatToString(k \div 10) \o <<Digits[(k % 10) + 1]>>

\* Number.prototype.toString of an integer
IntToString(k) == IF k < 0 THEN <<"-">> \o NatToString(-k) ELSE NatToString(k)

RECURSIVE PadLeft(_, _)
PadLeft(s, k) == IF Len(s) >= k THEN s ELSE PadLeft(<<"0">> \o s, k)

\* |x| * 10^k rounded to the nearest integer, a tie going to the larger one
RoundScaled(x, k) ==
  LET a == Abs(x.n) * Pow10(k)
  IN (2 * a + x.d) \div (2 * x.d)

\* Number.prototype.toFixed(k), k in 0..2: the sign of a negative number
\* is kept even when the digits are all zero ("-0.00")
ToFixed(x, k) ==
  IF isNaN(x) THEN <<"N", "a", "N">>
  ELSE LET m == RoundScaled(x, k)
           whole == NatToString(m \div Pow10(k))
           frac == PadLeft(NatToString(m % Pow10(k)), k)
       IN (IF x.n < 0 THEN <<"-">> ELSE <<>>) \o whole
          \o (IF k = 0 THEN <<>> ELSE <<".">> \o frac)

RECURSIVE DigitRun(_)
\* the number of leading decimal digits of s
DigitRun(s) == IF s # <<>> /\ IsDigit(Head(s)) THEN 1 + DigitRun(Tail(s)) ELSE 0

RECURSIVE DigitsValue(_)
DigitsValue(s) ==
  IF s = <<>> THEN 0 ELSE 10 * DigitsValue(SubSeq(s, 1, Len(s) - 1)) + DigitVal(s[Len(s)])

\* the number spelled by the il digits t starts with and the fl digits
\* after the point that follows them; NaN when there is no digit at all
DecimalValue(t, il, fl) ==
  IF il = 0 /\ fl = 0 THEN NaN
  ELSE Rat(DigitsValue(SubSeq(t, 1, il)) * Pow10(fl)
             + DigitsValue(SubSeq(t, il + 2, il + 1 + fl)),
           Pow10(fl))

\* the number of digits of the fraction u starts with, u being what
\* follows the integer digits
FractionDigits(u) == IF u # <<>> /\ Head(u) = "." THEN DigitRun(Tail(u)) ELSE 0

\* the number t starts with, t having il leading digits
DecimalPrefix(t, il) == DecimalValue(t, il, FractionDigits(SubSeq(t, il + 1, Len(t))))

Negated(neg, x) == IF neg THEN Minus(Zero, x) ELSE x

\* parseFloat: leading white space, an optional sign, digits, an optional
\* fraction; the longest such prefix is the number and anything after it
\* is ignored; NaN when the prefix has no digit.  Exponents and
\* "Infinity" are outside the model.
SignedPrefix(s, t) == Negated(s # <<>> /\ Head(s) = "-", DecimalPrefix(t, DigitRun(t)))

AfterSign(s) == IF s # <<>> /\ Head(s) \in {"-", "+"} THEN Tail(s) ELSE s

parseFloatTrimmed(s) == SignedPrefix(s, AfterSign(s))

parseFloat(str) == parseFloatTrimmed(TrimLeft(str))

RECURSIVE Without(_, _)
\* str.replace(/c/g, '')
Without(s, c) ==
  IF s = <<>> THEN <<>>
  ELSE IF Head(s) = c THEN Without(Tail(s), c)
  ELSE <<Head(s)>> \o Without(Tail(s), c)

RECURSIVE WithoutFirst(_, _)
\* str.replace(c, ''): only the first occurrence goes
WithoutFirst(s, c) ==
  IF s = <<>> THEN <<>>
  ELSE IF Head(s) = c THEN Tail(s)
  ELSE <<Head(s)>> \o WithoutFirst(Tail(s), c)

parseCommaNumber(str) ==
  IF str = <<>> THEN NaN ELSE parseFloat(Without(str, ","))

\* the placeholder shown for a value that cannot be computed: the one
\* character U+2013 (en dash), written here as the token "ndash"
Dash == <<"ndash">>

----------------------------------------------------------------------------
(* Time & duration calculator *)

\* the null that parseTimeToMinutes returns for an invalid string
Null == -1

\* number of characters matched by (\d{1,2}) when ':' follows it, else 0
HourDigits(s) ==
  IF Len(s) >= 2 /\ IsDigit(s[1]) /\ s[2] = ":" THEN 1
  ELSE IF Len(s) >= 3 /\ IsDigit(s[1]) /\ IsDigit(s[2]) /\ s[3] = ":" THEN 2
  ELSE 0

\* /^(\d{1,2}):(\d{2})\s*(AM|PM)$/ : the match groups, or matched = FALSE;
\* h is the length of the hour, r the text after the colon
MatchGroups(s, h, r) ==
  IF /\ h > 0
     /\ Len(r) >= 4
     /\ IsDigit(r[1]) /\ IsDigit(r[2])
     /\ TrimLeft(SubSeq(r, 3, Len(r))) \in {<<"A", "M">>, <<"P", "M">>}
  THEN [matched |-> TRUE,
        hours |-> IF h = 1 THEN DigitVal(s[1])
                  ELSE 10 * DigitVal(s[1]) + DigitVal(s[2]),
        minutes |-> 10 * DigitVal(r[1]) + DigitVal(r[2]),
        period |-> TrimLeft(SubSeq(r, 3, Len(r)))]
  ELSE [matched |-> FALSE, hours |-> 0, minutes |-> 0, period |-> <<>>]

MatchAfterHour(s, h) == MatchGroups(s, h, SubSeq(s, h + 2, Len(s)))

TimeMatch(s) == MatchAfterHour(s, HourDigits(s))

To24NoNoonCase(hours, period) ==
  IF period = <<"P", "M">> THEN hours + 12
  ELSE IF hours = 12 THEN 0 ELSE hours

\* the conversion to the 24-hour clock
To24(hours, period) ==
  IF period = <<"P", "M">> /\ hours # 12 THEN hours + 12
  ELSE IF period = <<"A", "M">> /\ hours = 12 THEN 0
  ELSE hours

\* what parseTimeToMinutes makes of the match m
MinutesOfMatch(m) ==
  IF ~m.matched THEN Null
  ELSE IF m.hours < 1 \/ m.hours > 12 \/ m.minutes < 0 \/ m.minutes > 59
       THEN Null
  ELSE To24(m.hours, m.period) * 60 + m.minutes

parseTimeToMinutes(timeStr) ==
  IF timeStr = <<>> THEN Null
  ELSE MinutesOfMatch(TimeMatch(ToUpperCase(Trim(timeStr))))

RolloverNever(duration) == duration

\* if crossing midnight, add 24h
Rollover(duration) == IF duration < 0 THEN duration + 24 * 60 ELSE duration

\* the duration between two parsed times
DurationBetween(startMinutes, endMinutes) ==
  IF startMinutes = Null \/ endMinutes = Null THEN 0
  ELSE Rollover(endMinutes - startMinutes)

calculateTimeDifferenceMinutes(start, end) ==
  IF start = <<>> \/ end = <<>> THEN 0
  ELSE DurationBetween(parseTimeToMinutes(start), parseTimeToMinutes(end))

----------------------------------------------------------------------------
(* The strings the two functions above are applied to in SpecTime.         *)
(* A string is assembled from parts; each part carries the reading a       *)
(* person gives it (val, pm, ok), so that the expected result is stated    *)
(* without the parser.                                                     *)

MaxPad == 1

Pads == {[i \in 1..n |-> " "] : n \in 0..MaxPad}

HourParts ==
  { [txt |-> <<>>, val |-> 0, ok |-> FALSE],
    [txt |-> <<"0">>, val |-> 0, ok |-> TRUE],
    [txt |-> <<"1">>, val |-> 1, ok |-> TRUE],
    [txt |-> <<"9">>, val |-> 9, ok |-> TRUE],
    [txt |-> <<"0", "9">>, val |-> 9, ok |-> TRUE],
    [txt |-> <<"1", "1">>, val |-> 11, ok |-> TRUE],
    [txt |-> <<"1", "2">>, val |-> 12, ok |-> TRUE],
    [txt |-> <<"1", "3">>, val |-> 13, ok |-> TRUE],
    [txt |-> <<"5">>, val |-> 5, ok |-> TRUE],
    [txt |-> <<"0", "1", "2">>, val |-> 12, ok |-> FALSE] }

SepParts == {<<":">>, <<>>, <<".">>}

MinuteParts ==
  { [txt |-> <<"0", "0">>, val |-> 0, ok |-> TRUE],
    [txt |-> <<"3", "0">>, val |-> 30, ok |-> TRUE],
    [txt |-> <<"5", "9">>, val |-> 59, ok |-> TRUE],
    [txt |-> <<"6", "0">>, val |-> 60, ok |-> TRUE],
    [txt |-> <<"5">>, val |-> 5, ok |-> FALSE],
    [txt |-> <<>>, val |-> 0, ok |-> FALSE],
    [txt |-> <<"0", "0", "5">>, val |-> 5, ok |-> FALSE] }

PeriodParts ==
  { [txt |-> <<"A", "M">>, pm |-> FALSE, ok |-> TRUE],
    [txt |-> <<"P", "M">>, pm |-> TRUE, ok |-> TRUE],
    [txt |-> <<"a", "m">>, pm |-> FALSE, ok |-> TRUE],
    [txt |-> <<"p", "M">>, pm |-> TRUE, ok |-> TRUE],
    [txt |-> <<>>, pm |-> FALSE, ok |-> FALSE],
    [txt |-> <<"P">>, pm |-> TRUE, ok |-> FALSE],
    [txt |-> <<"X", "M">>, pm |-> FALSE, ok |-> FALSE] }

TailParts == {<<>>, <<" ">>, <<"x">>}

TimeParts ==
  [lead : Pads, hour : HourParts, sep : SepParts, minute : MinuteParts,
   gap : Pads, period : PeriodParts, tail : TailParts]

\* the strings that calculateTimeDifferenceMinutes is tried on in pairs:
\* well-formed times, the empty string and a 24-hour string
PairParts ==
  { p \in TimeParts :
      /\ p.lead = <<>> /\ p.tail = <<>>
      /\ \/ /\ p.gap = <<" ">> /\ p.sep = <<":">>
            /\ p.hour.txt \in {<<"1">>, <<"9">>, <<"1", "1">>, <<"1", "2">>}
            /\ p.minute.txt \in {<<"0", "0">>, <<"3", "0">>}
            /\ p.period.txt \in {<<"A", "M">>, <<"P", "M">>}
         \/ /\ p.gap = <<>> /\ p.sep = <<":">>
            /\ p.hour.txt = <<"1", "3">> /\ p.minute.txt = <<"0", "0">>
            /\ p.period.txt = <<>>
         \/ /\ p.gap = <<>> /\ p.sep = <<>>
            /\ p.hour.txt = <<>> /\ p.minute.txt = <<>> /\ p.period.txt = <<>> }

FivePM ==
  [lead |-> <<>>, hour |-> [txt |-> <<"5">>, val |-> 5, ok |-> TRUE], sep |-> <<":">>,
   minute |-> [txt |-> <<"0", "0">>, val |-> 0, ok |-> TRUE], gap |-> <<" ">>,
   period |-> [txt |-> <<"P", "M">>, pm |-> TRUE, ok |-> TRUE], tail |-> <<>>]

\* the string a set of parts spells
TimeText(p) ==
  p.lead \o p.hour.txt \o p.sep \o p.minute.txt \o p.gap \o p.period.txt \o p.tail

\* H:MM followed by AM or PM: 1-2 digit hour in 1..12, exactly 2-digit
\* minute in 0..59, any letter case, surrounding white space allowed
WellFormed(p) ==
  /\ p.hour.ok /\ p.hour.val \in 1..12
  /\ p.sep = <<":">>
  /\ p.minute.ok /\ p.minute.val \in 0..59
  /\ p.period.ok
  /\ p.tail \in {<<>>, <<" ">>}

\* minutes since midnight as a person reads the parts
ClockMinutes(p) ==
  LET h == IF p.hour.val = 12 THEN 0 ELSE p.hour.val
  IN (IF p.period.pm THEN h + 12 ELSE h) * 60 + p.minute.val

----------------------------------------------------------------------------
(* Dates *)

\* A calendar date is [y, m, d] with m from 1.  A Date object is modelled
\* by the local calendar date it stands for (updateSummaries and
\* getWeekNumber read only getFullYear, getMonth and getDate), and a day is
\* taken as 24 hours: daylight-saving changes between January 1 and the
\* date are not modelled.  NoDate is the empty string as a date text and
\* the Invalid Date made from it.
NoDate == [y |-> 0, m |-> 0, d |-> 0]

IsLeap(y) == (y % 4 = 0 /\ y % 100 # 0) \/ y % 400 = 0

DaysInMonth(y, m) ==
  IF m = 2 THEN (IF IsLeap(y) THEN 29 ELSE 28)
  ELSE IF m \in {4, 6, 9, 11} THEN 30 ELSE 31

\* the days from 0001-01-01 to January 1 of year y
DaysBeforeYear(y) ==
  365 * (y - 1) + ((y - 1) \div 4) - ((y - 1) \div 100) + ((y - 1) \div 400)

RECURSIVE DaysBeforeMonth(_, _)
DaysBeforeMonth(y, m) ==
  IF m = 1 THEN 0 ELSE DaysBeforeMonth(y, m - 1) + DaysInMonth(y, m - 1)

\* the days from 0001-01-01 to the date
DayNumber(dt) == DaysBeforeYear(dt.y) + DaysBeforeMonth(dt.y, dt.m) + dt.d - 1

\* Date.prototype.getFullYear of the day with number n
YearOfDay(n) ==
  CHOOSE y \in ((n \div 366) - 1)..((n \div 365) + 1) :
    DaysBeforeYear(y) <= n /\ n < DaysBeforeYear(y + 1)

\* the calendar date with day number n
DateOfDay(n) ==
  LET y == YearOfDay(n)
      k == n - DaysBeforeYear(y)
      m == CHOOSE i \in 1..12 :
             DaysBeforeMonth(y, i) <= k /\ k < DaysBeforeMonth(y, i) + DaysInMonth(y, i)
  IN [y |-> y, m |-> m, d |-> k - DaysBeforeMonth(y, m) + 1]

\* Date.prototype.getDay: 0 is Sunday (0001-01-01 was a Monday)
getDay(n) == (n + 1) % 7

\* Math.ceil(a / b) for b > 0
CeilDiv(a, b) == -((-a) \div b)

\* new Date(text) for a date-only ISO text: midnight UTC of that date,
\* which in a zone behind UTC is the evening of the day before
DateFromText(text, zoneBehind) ==
  IF text = NoDate THEN NoDate
  ELSE IF zoneBehind THEN DateOfDay(DayNumber(text) - 1)
  ELSE text

\* getWeekNumber from 'date.setDate(...)' on, date being the day number of
\* the local date: move to the Saturday of the week, count the weeks from
\* January 1 of the Saturday's year
WeekOfSaturday(saturday) ==
  CeilDiv(saturday - DaysBeforeYear(YearOfDay(saturday)) + 1, 7)

\* the NaN getWeekNumber and getFullYear return for an Invalid Date
NaNDate == 0

getWeekNumber(dt) ==
  IF dt = NoDate THEN NaNDate
  ELSE WeekOfSaturday(DayNumber(dt) + 6 - getDay(DayNumber(dt)))

\* what updateSummaries compares of a Date: getWeekNumber(dt), dt.getFullYear()
WeekAndYear(dt) ==
  [week |-> getWeekNumber(dt), year |-> IF dt = NoDate THEN NaNDate ELSE dt.y]

\* entryWeek === currentWeek && entryYear === currentYear (NaN equals nothing)
InCurrentWeek(entryKey, currentKey) ==
  /\ entryKey.week # NaNDate
  /\ currentKey.week # NaNDate
  /\ entryKey = currentKey

----------------------------------------------------------------------------
(* The summaries *)

\* let weekNet = 0 ... let totalMinutes = 0
ZeroSums ==
  [weekNet |-> Zero, weekGross |-> Zero, weekMinutes |-> 0,
   totalNet |-> Zero, totalGross |-> Zero, totalMinutes |-> 0]

\* the body of the forEach for one entry, inWeek being its week test
AddToGrossFromNet(acc, entry, inWeek) ==
  [totalNet |-> Plus(acc.totalNet, entry.net),
   totalGross |-> Plus(acc.totalGross, entry.gross),
   totalMinutes |-> acc.totalMinutes + entry.workingMinutes,
   weekNet |-> IF inWeek THEN Plus(acc.weekNet, entry.net) ELSE acc.weekNet,
   weekGross |-> IF inWeek THEN Plus(acc.weekGross, entry.net) ELSE acc.weekGross,
   weekMinutes |-> IF inWeek THEN acc.weekMinutes + entry.workingMinutes
                   ELSE acc.weekMinutes]

AddToSums(acc, entry, inWeek) ==
  [totalNet |-> Plus(acc.totalNet, entry.net),
   totalGross |-> Plus(acc.totalGross, entry.gross),
   totalMinutes |-> acc.totalMinutes + entry.workingMinutes,
   weekNet |-> IF inWeek THEN Plus(acc.weekNet, entry.net) ELSE acc.weekNet,
   weekGross |-> IF inWeek THEN Plus(acc.weekGross, entry.gross) ELSE acc.weekGross,
   weekMinutes |-> IF inWeek THEN acc.weekMinutes + entry.workingMinutes
                   ELSE acc.weekMinutes]

\* the week test of one entry against the current week and year
EntryInWeek(entry, currentKey, zoneBehind) ==
  InCurrentWeek(WeekAndYear(DateFromText(entry.date, zoneBehind)), currentKey)

RECURSIVE SumEntries(_, _, _, _)
\* entries.forEach(...)
SumEntries(es, currentKey, zoneBehind, acc) ==
  IF es = <<>> THEN acc
  ELSE SumEntries(Tail(es), currentKey, zoneBehind,
                  AddToSums(acc, Head(es), EntryInWeek(Head(es), currentKey, zoneBehind)))

Dollars(x) == <<"$">> \o ToFixed(x, 2)

\* the average hourly text: total / (totalMinutes / 60), or the dash
HourlyPerMinute(total, totalMinutes) ==
  IF totalMinutes > 0 THEN Dollars(Over(total, FromInt(totalMinutes))) ELSE Dash

HourlyText(total, totalMinutes) ==
  IF totalMinutes > 0
  THEN Dollars(Over(total, Over(FromInt(totalMinutes), FromInt(60))))
  ELSE Dash

\* 'Update UI based on toggle state'
SummaryText(sums, showGross) ==
  [week |-> Dollars(IF showGross THEN sums.weekGross ELSE sums.weekNet),
   overall |-> Dollars(IF showGross THEN sums.totalGross ELSE sums.totalNet),
   avg |-> HourlyText(IF showGross THEN sums.totalGross ELSE sums.totalNet,
                      sums.totalMinutes),
   sums |-> <<sums>>]

\* updateSummaries(): the text of the three elements, and the sums if the
\* loop ran
updateSummariesNoEmptyCase(es, now, showGross, zoneBehind) ==
  SummaryText(SumEntries(es, WeekAndYear(now), zoneBehind, ZeroSums), showGross)

updateSummaries(es, now, showGross, zoneBehind) ==
  IF Len(es) = 0
  THEN [week |-> Dash, overall |-> Dash, avg |-> Dash, sums |-> <<>>]
  ELSE SummaryText(SumEntries(es, WeekAndYear(now), zoneBehind, ZeroSums), showGross)

----------------------------------------------------------------------------
(* The shift form and the derived fields *)

\* const MPG = 30.9
MPG == Rat(309, 10)

\* const DEFAULT_GAS_PRICE = 3.272
DEFAULT_GAS_PRICE == Rat(3272, 1000)

RECURSIVE SumBreaks(_)
\* the sum of calculateTimeDifferenceMinutes over a sequence of {start, end}
SumBreaks(bs) ==
  IF bs = <<>> THEN 0
  ELSE calculateTimeDifferenceMinutes(Head(bs).start, Head(bs).end) + SumBreaks(Tail(bs))

RECURSIVE CompleteRows(_)
\* the rows with both inputs filled (if (start && end)), in row order
CompleteRows(rows) ==
  IF rows = <<>> THEN <<>>
  ELSE IF Head(rows).start # <<>> /\ Head(rows).end # <<>>
       THEN <<Head(rows)>> \o CompleteRows(Tail(rows))
       ELSE CompleteRows(Tail(rows))

getTotalBreakMinutesLastOnly(rows) ==
  IF CompleteRows(rows) = <<>> THEN 0
  ELSE SumBreaks(<<CompleteRows(rows)[Len(CompleteRows(rows))]>>)

\* getTotalBreakMinutes over the break rows of the form
getTotalBreakMinutes(rows) == SumBreaks(CompleteRows(rows))

MaxOf(a, b) == IF a > b THEN a ELSE b

WorkingUnclamped(shiftMinutes, breakMinutes) == shiftMinutes - breakMinutes

\* Math.max(shiftMinutes - breakMinutes, 0)
Working(shiftMinutes, breakMinutes) == MaxOf(shiftMinutes - breakMinutes, 0)

\* the computed fields recalculate() writes for the odometer readings and
\* the price it has parsed
ComputedFields(d, milesStart, milesEnd, pricePerGal) ==
  LET miles == Minus(milesEnd, milesStart)
      gallons == Over(miles, MPG)
      gasCost == Times(gallons, pricePerGal)
  IN IF isNaN(milesStart) \/ isNaN(milesEnd)
     THEN [milesDriven |-> Dash, gallonsUsed |-> Dash,
           dollarsPerGal |-> d.dollarsPerGal, gasCost |-> Dash]
     ELSE [milesDriven |-> IntToString(MathRound(miles)),
           gallonsUsed |-> ToFixed(gallons, 2),
           dollarsPerGal |-> d.dollarsPerGal,
           gasCost |-> IF isNaN(pricePerGal) THEN Dash
                       ELSE <<"$">> \o ToFixed(gasCost, 2)]

\* recalculate(): the four computed fields that the submit handler reads
\* back (the duration, net and hourly previews are written and never read)
recalculate(f, d) ==
  ComputedFields(d, parseCommaNumber(f.milesStart), parseCommaNumber(f.milesEnd),
                 parseFloat(WithoutFirst(d.dollarsPerGal, "$")))

\* the text resetForm and loadEntries put into the price field
DefaultPriceText == <<"$">> \o ToFixed(DEFAULT_GAS_PRICE, 2)

\* workingMinutes > 0 ? netProfit / (workingMinutes / 60) : 0
Hourly(netProfit, workingMinutes) ==
  IF workingMinutes > 0 THEN Over(netProfit, Rat(workingMinutes, 60)) ELSE Zero

NetOfGasTwice(grossPay, gasCost) == Minus(Minus(grossPay, gasCost), gasCost)

\* const netProfit = grossPay - gasCost
NetProfit(grossPay, gasCost) == Minus(grossPay, gasCost)

\* the entry object the submit handler builds from the values it has
\* parsed (id: 0 stands for a missing id)
EntryObject(f, grossPay, milesStart, milesEnd, milesDriven, gallons, pricePerGal, gasCost, shiftMinutes, breakMinutes) ==
  LET netProfit == NetProfit(grossPay, gasCost)
      workingMinutes == Working(shiftMinutes, breakMinutes)
  IN [date |-> f.date, start |-> f.start, end |-> f.end,
      shiftMinutes |-> shiftMinutes, breakMinutes |-> breakMinutes,
      workingMinutes |-> workingMinutes,
      net |-> netProfit, gross |-> grossPay,
      milesStart |-> milesStart, milesEnd |-> milesEnd,
      milesDriven |-> milesDriven, gallons |-> gallons,
      pricePerGal |-> pricePerGal, gasCost |-> gasCost,
      hourly |-> Hourly(netProfit, workingMinutes),
      breaks |-> CompleteRows(f.breaks),
      id |-> 0]

\* the submit handler from 'Parse inputs' to the entry object: the inputs
\* of the form f and the text d of the computed fields
BuildEntry(f, d) ==
  EntryObject(f,
              OrZero(parseFloat(f.gross)),
              OrZero(parseCommaNumber(f.milesStart)),
              OrZero(parseCommaNumber(f.milesEnd)),
              OrZero(parseFloat(d.milesDriven)),
              OrZero(parseFloat(d.gallonsUsed)),
              OrZero(parseFloat(WithoutFirst(d.dollarsPerGal, "$"))),
              OrZero(parseFloat(WithoutFirst(d.gasCost, "$"))),
              calculateTimeDifferenceMinutes(f.start, f.end),
              getTotalBreakMinutes(f.breaks))

\* validateTimeInput: empty is valid
validateAnyTime(value) == TRUE

validateTimeInput(value) ==
  IF Trim(value) = <<>> THEN TRUE ELSE parseTimeToMinutes(value) # Null

\* the inputs after form.reset() and breaksContainer.innerHTML = ''
EmptyForm ==
  [date |-> "", start |-> <<>>, end |-> <<>>, gross |-> <<>>,
   milesStart |-> <<>>, milesEnd |-> <<>>, breaks |-> <<>>]

\* the computed fields as resetForm leaves them
ResetDisp ==
  [milesDriven |-> Dash, gallonsUsed |-> Dash, dollarsPerGal |-> DefaultPriceText,
   gasCost |-> Dash]

----------------------------------------------------------------------------
(* What the user types *)

\* The values typed into the form, in order: an ordinary shift; a shift of
\* length zero without odometer readings; a shift over midnight with
\* non-numeric pay and odometer and a break row left half empty; lower-case
\* am, thousands separators, fractional odometer readings, pay below the
\* gas cost and two breaks; an odometer that runs backwards and no pay; a break longer
\* than the shift; a 24-hour start time; a start time of one space.
Typed ==
  {
    [date |-> "2025-01-06", start |-> <<"9", ":", "0", "0", " ", "A", "M">>, end |-> <<"5", ":", "0", "0", " ", "P", "M">>,
     gross |-> <<"1", "0", "0">>, milesStart |-> <<"1", "0", "0", "0">>, milesEnd |-> <<"1", "1", "0", "0">>,
     breaks |-> <<>>],
    [date |-> "2025-01-07", start |-> <<"9", ":", "0", "0", " ", "A", "M">>, end |-> <<"9", ":", "0", "0", " ", "A", "M">>,
     gross |-> <<"5", "0">>, milesStart |-> <<>>, milesEnd |-> <<>>,
     breaks |-> <<>>],
    [date |-> "2025-01-06", start |-> <<"1", "1", ":", "0", "0", " ", "P", "M">>, end |-> <<"1", ":", "0", "0", " ", "A", "M">>,
     gross |-> <<"a", "b", "c">>, milesStart |-> <<"a", "b", "c">>, milesEnd |-> <<>>,
     breaks |-> <<[start |-> <<"1", "2", ":", "0", "0", " ", "A", "M">>, end |-> <<"1", "2", ":", "3", "0", " ", "A", "M">>], [start |-> <<"1", "2", ":", "4", "0", " ", "A", "M">>, end |-> <<>>]>>],
    [date |-> "2025-01-07", start |-> <<"9", ":", "0", "0", " ", "a", "m">>, end |-> <<"5", ":", "0", "0", " ", "P", "M">>,
     gross |-> <<"1">>, milesStart |-> <<"1", ",", "0", "0", "0", ".", "4">>, milesEnd |-> <<"1", ",", "1", "0", "0", ".", "9">>,
     breaks |-> <<[start |-> <<"1", "2", ":", "0", "0", " ", "P", "M">>, end |-> <<"1", "2", ":", "3", "0", " ", "P", "M">>], [start |-> <<"3", ":", "0", "0", " ", "P", "M">>, end |-> <<"3", ":", "1", "5", " ", "P", "M">>]>>],
    [date |-> "2025-01-06", start |-> <<"9", ":", "0", "0", " ", "A", "M">>, end |-> <<"5", ":", "0", "0", " ", "P", "M">>,
     gross |-> <<>>, milesStart |-> <<"2", "0", "0", "0">>, milesEnd |-> <<"1", "9", "9", "0">>,
     breaks |-> <<>>],
    [date |-> "2025-01-07", start |-> <<"9", ":", "0", "0", " ", "A", "M">>, end |-> <<"9", ":", "3", "0", " ", "A", "M">>,
     gross |-> <<"2", "0", ".", "5">>, milesStart |-> <<>>, milesEnd |-> <<>>,
     breaks |-> <<[start |-> <<"9", ":", "0", "0", " ", "A", "M">>, end |-> <<"1", "0", ":", "0", "0", " ", "A", "M">>]>>],
    [date |-> "2025-01-06", start |-> <<"1", "3", ":", "0", "0">>, end |-> <<"5", ":", "0", "0", " ", "P", "M">>,
     gross |-> <<"1", "0", "0">>, milesStart |-> <<"1", "0", "0", "0">>, milesEnd |-> <<"1", "1", "0", "0">>,
     breaks |-> <<>>],
    [date |-> "2025-01-07", start |-> <<" ">>, end |-> <<"5", ":", "0", "0", " ", "P", "M">>,
     gross |-> <<"5", "0">>, milesStart |-> <<>>, milesEnd |-> <<>>,
     breaks |-> <<>>]
  }

\* the entry the submit handler builds when t is typed into a fresh form
EntryOf(t) == BuildEntry(t, recalculate(t, ResetDisp))

\* the shifts typed while the whole application is explored: the ordinary
\* one and the one whose break outlasts it
TypedFew ==
  {t \in Typed : t.gross \in {<<"1", "0", "0">>, <<"2", "0", ".", "5">>}
                 /\ validateTimeInput(t.start)}

\* Backup files: the entries array of a file exportToJson wrote in some
\* earlier session, with the records of one or two of those shifts before
\* they had got an id.
BackupFiles ==
  {<<EntryOf(t)>> : t \in TypedFew} \cup
  {<<EntryOf(t), EntryOf(u)>> :
     t \in {v \in TypedFew : v.breaks = <<>>}, u \in {v \in TypedFew : v.breaks # <<>>}}

----------------------------------------------------------------------------
(* The application *)

MaxEntries == 2

MaxPending == 1

MaxInserts == 2

MaxFaults == 1

NoSubmit == <<>>

NoEnd == <<>>

\* the application's variables at rest
AppAtRest ==
  /\ entries = <<>>
  /\ editingIndex = -1
  /\ isSettingUpEdit = FALSE
  /\ form = EmptyForm
  /\ disp = ResetDisp
  /\ deleteBtn = -1
  /\ table = <<>>
  /\ cloud = <<>>
  /\ nextId = 1
  /\ local = <<>>
  /\ faults = 0
  /\ pending = {}
  /\ raised = FALSE
  /\ submitted = NoSubmit
  /\ ended = NoEnd

\* at rest, with the Supabase client
AppIdle == AppAtRest /\ mock = FALSE /\ overlap = MaxPending

\* the summaries of the empty collection, in net mode
SummaryIdle ==
  /\ sEntries = <<>>
  /\ showGrossValues = FALSE
  /\ summary = updateSummaries(<<>>, NoDate, FALSE, FALSE)

\* the service worker script has been fetched and nothing else has happened
WorkerIdle ==
  /\ worker = "installing"
  /\ cacheStore = <<>>
  /\ server = 1
  /\ fetched = <<>>

\* updateSummaries has not run on anything but the empty collection
WeekIdle ==
  /\ behind = FALSE
  /\ wDate = NoDate
  /\ wNow = NoDate
  /\ wKeys = <<>>
  /\ SummaryIdle
  /\ backup = <<>>
  /\ restored = <<>>
  /\ WorkerIdle

\* the page after loadEntries has run against empty storage
Init ==
  /\ AppIdle
  /\ tin = [start |-> FivePM, end |-> FivePM]
  /\ tParsed = 0
  /\ tDiff = 0
  /\ tDone = {}
  /\ WeekIdle

\* The user fills the form in; every input event runs recalculate(), so the
\* computed fields are those of the values now in the form.
FillWith(choices) ==
  \E t \in choices :
    /\ form' = t
    /\ disp' = recalculate(form', disp)
    /\ raised' = FALSE
    /\ submitted' = NoSubmit
    /\ ended' = NoEnd
    /\ UNCHANGED <<entries, editingIndex, isSettingUpEdit, deleteBtn, table, cloud,
                   nextId, local, pending>>
    /\ UNCHANGED <<faults, mock, overlap, tvars, kvars, wvars, bvars>>

\* an entry object: its fields and the identity of the object (ref), which
\* a pending saveEntry call holds on to
WithRef(e, r) == [f \in DOMAIN e \cup {"ref"} |-> IF f = "ref" THEN r ELSE e[f]]

\* the fields of an entry object as JSON or a table row carries them
Fields(e) == [f \in DOMAIN e \ {"ref"} |-> e[f]]

FieldsOfAll(es) == [i \in 1..Len(es) |-> Fields(es[i])]

\* Object identities are kept canonical: the object at entries[i] has ref
\* i + 1, an object the collection no longer holds has ref 0, and an object
\* just made has ref -1 until the handler that made it has placed it.
NewRef == -1

PlaceOf(es, r) ==
  IF \E i \in 1..Len(es) : es[i].ref = r
  THEN CHOOSE i \in 1..Len(es) : es[i].ref = r
  ELSE 0

Placed(es) == [i \in 1..Len(es) |-> WithRef(es[i], i)]

PlacedTasks(es, ts) == {[t EXCEPT !.ref = PlaceOf(es, t.ref)] : t \in ts}

RECURSIVE Numbered(_, _)
\* fresh objects for parsed rows, numbered from k
Numbered(rows, k) ==
  IF rows = <<>> THEN <<>>
  ELSE <<WithRef(Head(rows), k)>> \o Numbered(Tail(rows), k + 1)

\* entries.splice(index, 1)
Splice(es, index) ==
  IF index < 0 \/ index >= Len(es) THEN es
  ELSE SubSeq(es, 1, index) \o SubSeq(es, index + 2, Len(es))

\* the day the session runs on: Wednesday 2025-01-08, in the week of the
\* dates typed
AppNow == [y |-> 2025, m |-> 1, d |-> 8]

\* new Date(entry.date) for the date texts typed
DateOfText(text) ==
  IF text = "2025-01-06" THEN [y |-> 2025, m |-> 1, d |-> 6]
  ELSE IF text = "2025-01-07" THEN [y |-> 2025, m |-> 1, d |-> 7]
  ELSE NoDate

\* updateSummaries() on the collection es
Summaries(es) ==
  updateSummaries([i \in 1..Len(es) |-> [es[i] EXCEPT !.date = DateOfText(es[i].date)]],
                  AppNow, showGrossValues, behind)

\* the Hourly cell of a row: $${entry.hourly.toFixed(2)}
RenderHourly(e) == <<"$">> \o ToFixed(e.hourly, 2)

\* renderEntries(): one row per entry, its Edit button carrying the index
renderEntries(es) ==
  [i \in 1..Len(es) |->
     [index |-> i - 1, ref |-> es[i].ref, date |-> es[i].date,
      net |-> <<"$">> \o ToFixed(es[i].net, 2),
      hourly |-> RenderHourly(es[i])]]

\* a storage call in flight: the operation, the entry object and the row
\* sent, the UI code waiting for it, and for an import the rows still to add
Task(op, ref, row, after, rest) ==
  [op |-> op, ref |-> ref, row |-> row, after |-> after, rest |-> rest]

InsertsIssued ==
  (nextId - 1) + Cardinality({t \in pending : t.op = "insert" /\ t.row.id = 0})

CanStartTask == Cardinality(pending) < overlap

\* saveEntry(entry, isUpdate) up to its first await
SaveCall(e, isUpdate, after, rest) ==
  Task(IF isUpdate /\ e.id # 0 THEN "update" ELSE "insert", e.ref, Fields(e), after, rest)

FillForm == FillWith(TypedFew)

TypeAnything == FillWith(Typed)

\* The submit handler returns early: edit mode is still being set up, or a
\* time field does not validate.
SubmitBlocked ==
  /\ isSettingUpEdit \/ ~validateTimeInput(form.start) \/ ~validateTimeInput(form.end)
  /\ raised' = FALSE
  /\ submitted' = NoSubmit
  /\ ended' = <<[kind |-> "blocked"]>>
  /\ UNCHANGED <<entries, editingIndex, isSettingUpEdit, form, disp, deleteBtn, table,
                 cloud, nextId, local, pending>>
  /\ UNCHANGED <<faults, mock, overlap, tvars, kvars, wvars, bvars>>

\* entries.push(entry); saveEntry(entry, false)
PushEntry(entry) ==
  /\ entries' = Placed(Append(entries, entry))
  /\ pending' = PlacedTasks(Append(entries, entry),
                            pending \cup {SaveCall(entry, FALSE, "render", <<>>)})
  /\ submitted' = <<[rec |-> Fields(entry), form |-> form, disp |-> disp, old |-> <<>>]>>
  /\ ended' = NoEnd

\* The submit handler in add mode: build the entry, push it, start
\* saveEntry(entry, false), reset the form.
SubmitAdd ==
  /\ ~isSettingUpEdit
  /\ validateTimeInput(form.start) /\ validateTimeInput(form.end)
  /\ editingIndex < 0
  /\ Len(entries) < MaxEntries
  /\ CanStartTask
  /\ InsertsIssued < MaxInserts
  /\ PushEntry(WithRef(BuildEntry(form, disp), NewRef))
  /\ editingIndex' = -1
  /\ form' = EmptyForm
  /\ disp' = ResetDisp
  /\ deleteBtn' = -1
  /\ raised' = FALSE
  /\ UNCHANGED <<isSettingUpEdit, table, cloud, nextId, local>>
  /\ UNCHANGED <<faults, mock, overlap, tvars, kvars, wvars, bvars>>

\* entries[editIndex] = entry; saveEntry(entry, true); was is the record
\* the new entry takes the place of
ReplaceEntry(entry, was) ==
  /\ entries' = Placed([entries EXCEPT ![editingIndex + 1] = entry])
  /\ pending' = PlacedTasks([entries EXCEPT ![editingIndex + 1] = entry],
                            pending \cup {SaveCall(entry, TRUE, "render", <<>>)})
  /\ submitted' = <<[rec |-> Fields(entry), form |-> form, disp |-> disp, old |-> <<was>>]>>
  /\ ended' = NoEnd

\* The submit handler in edit mode with a record at editingIndex: replace
\* it by the new entry under the old id, start saveEntry(entry, true),
\* reset the form.
SubmitEdit ==
  /\ ~isSettingUpEdit
  /\ validateTimeInput(form.start) /\ validateTimeInput(form.end)
  /\ editingIndex >= 0
  /\ editingIndex < Len(entries)
  /\ CanStartTask
  /\ InsertsIssued < MaxInserts
  /\ LET existingEntry == entries[editingIndex + 1]
     IN ReplaceEntry(WithRef([BuildEntry(form, disp) EXCEPT !.id = existingEntry.id],
                             NewRef),
                     Fields(existingEntry))
  /\ editingIndex' = -1
  /\ form' = EmptyForm
  /\ disp' = ResetDisp
  /\ deleteBtn' = -1
  /\ raised' = FALSE
  /\ UNCHANGED <<isSettingUpEdit, table, cloud, nextId, local>>
  /\ UNCHANGED <<faults, mock, overlap, tvars, kvars, wvars, bvars>>

\* The submit handler in edit mode with no record at editingIndex:
\* existingEntry is undefined and reading existingEntry.id throws a
\* TypeError before anything is stored or reset.
SubmitThrows ==
  /\ ~isSettingUpEdit
  /\ validateTimeInput(form.start) /\ validateTimeInput(form.end)
  /\ editingIndex >= 0
  /\ editingIndex >= Len(entries)
  /\ raised' = TRUE
  /\ submitted' = NoSubmit
  /\ ended' = NoEnd
  /\ UNCHANGED <<entries, editingIndex, isSettingUpEdit, form, disp, deleteBtn, table,
                 cloud, nextId, local, pending>>
  /\ UNCHANGED <<faults, mock, overlap, tvars, kvars, wvars, bvars>>

\* what editEntry puts into the inputs and the break rows for an entry
EditForm(entry) ==
  [date |-> entry.date, start |-> entry.start, end |-> entry.end,
   gross |-> ToFixed(entry.gross, 2),
   milesStart |-> ToFixed(entry.milesStart, 0),
   milesEnd |-> ToFixed(entry.milesEnd, 0),
   breaks |-> entry.breaks]

\* The click handler of the Edit button of the k-th drawn row:
\* editEntry(parseInt(btn.dataset.index)).
EditRow(k) ==
  LET index == table[k].index
  IN /\ raised' = FALSE
     /\ submitted' = NoSubmit
     /\ ended' = NoEnd
     /\ IF index >= Len(entries)
        THEN UNCHANGED <<editingIndex, isSettingUpEdit, form, disp, deleteBtn>>
        ELSE LET entry == entries[index + 1]
             IN /\ isSettingUpEdit' = TRUE
                /\ form' = EditForm(entry)
                /\ editingIndex' = index
                /\ disp' = recalculate(form', disp)
                /\ deleteBtn' = IF deleteBtn = -1 THEN index ELSE deleteBtn
     /\ UNCHANGED <<entries, table, cloud, nextId, local, pending>>
     /\ UNCHANGED <<faults, mock, overlap, tvars, kvars, wvars, bvars>>

\* A click on the Edit button of a drawn row.
EditEntry == \E k \in 1..Len(table) : EditRow(k)

\* The timer editEntry starts (setTimeout, 100 ms) clears the flag.
EditSetupDone ==
  /\ isSettingUpEdit
  /\ isSettingUpEdit' = FALSE
  /\ raised' = FALSE
  /\ submitted' = NoSubmit
  /\ ended' = NoEnd
  /\ UNCHANGED <<entries, editingIndex, form, disp, deleteBtn, table, cloud, nextId,
                 local, pending>>
  /\ UNCHANGED <<faults, mock, overlap, tvars, kvars, wvars, bvars>>

\* the form and edit state after resetForm()
AfterReset ==
  /\ editingIndex' = -1
  /\ form' = EmptyForm
  /\ disp' = ResetDisp
  /\ deleteBtn' = -1

\* 'Delete Shift' in the form, confirmed.  The handler closed over the
\* index editEntry had when the button was made.  deleteEntry awaits the
\* table only for an entry with an id; without one (or without an entry)
\* it writes localStorage and the code after it runs before any other event.
DeleteShift ==
  /\ deleteBtn >= 0
  /\ raised' = FALSE
  /\ submitted' = NoSubmit
  /\ ended' = NoEnd
  /\ entries' = Placed(Splice(entries, deleteBtn))
  /\ IF deleteBtn < Len(entries) /\ entries[deleteBtn + 1].id # 0
     THEN /\ CanStartTask
          /\ pending' = PlacedTasks(Splice(entries, deleteBtn), pending \cup
               {Task("delete", entries[deleteBtn + 1].ref, Fields(entries[deleteBtn + 1]),
                     "renderReset", <<>>)})
          /\ UNCHANGED <<editingIndex, form, disp, deleteBtn, table, summary, local>>
     ELSE /\ local' = FieldsOfAll(entries')
          /\ table' = renderEntries(entries')
          /\ summary' = Summaries(entries')
          /\ AfterReset
          /\ pending' = PlacedTasks(Splice(entries, deleteBtn), pending)
  /\ UNCHANGED <<isSettingUpEdit, cloud, nextId>>
  /\ UNCHANGED <<faults, mock, overlap, tvars, kvars, uvars, bvars>>

\* Object.assign(entry, savedEntry): the object, if the collection still
\* holds it, takes the fields of the stored row
Assigned(es, ref, saved) ==
  [i \in 1..Len(es) |-> IF es[i].ref = ref THEN WithRef(saved, ref) ELSE es[i]]

HasRow(id) == \E i \in 1..Len(cloud) : cloud[i].id = id

RECURSIVE RemoveRow(_, _)
RemoveRow(rows, id) ==
  IF rows = <<>> THEN <<>>
  ELSE IF Head(rows).id = id THEN RemoveRow(Tail(rows), id)
  ELSE <<Head(rows)>> \o RemoveRow(Tail(rows), id)

\* the row as the table stores it: a row sent without an id gets the next
SavedRow(row) == IF row.id = 0 THEN [row EXCEPT !.id = nextId] ELSE row

\* saveEntry rejects only when both stores fail; deleteEntry never does
RejectsWithoutFallback(op, outcome) == outcome # "ok" /\ op # "delete"

Rejects(op, outcome) == outcome = "all" /\ op # "delete"

\* A storage call settles.  outcome "ok": the table did it and localStorage
\* was written; "cloud": the table call failed and localStorage was
\* written instead; "all": both failed.  An insert under an id the table
\* already holds fails on the primary key, and every table call on the
\* mock client throws (insert(...).select, update and delete().eq are not
\* functions of it); the other failures are faults of the stores, at most
\* MaxFaults of them.
Settle ==
  \E t \in pending, outcome \in {"ok", "cloud", "all"} :
    LET ok == outcome = "ok"
        cloud1 == IF ~ok THEN cloud
                  ELSE IF t.op = "insert" THEN Append(cloud, SavedRow(t.row))
                  ELSE IF t.op = "update"
                       THEN [i \in 1..Len(cloud) |->
                               IF cloud[i].id = t.row.id THEN t.row ELSE cloud[i]]
                  ELSE RemoveRow(cloud, t.row.id)
        entries1 == IF ok /\ t.op = "insert"
                    THEN Assigned(entries, t.ref, SavedRow(t.row))
                    ELSE entries
        rejected == Rejects(t.op, outcome)
        conflict == t.op = "insert" /\ HasRow(SavedRow(t.row).id)
        fault == ~ok /\ (outcome = "all" \/ ~(conflict \/ mock))
        more == t.after = "import" /\ ~rejected /\ t.rest # <<>>
        next == WithRef(Head(t.rest), NewRef)
        es == IF more THEN Append(entries1, next) ELSE entries1
    IN /\ ok => ~(conflict \/ mock)
       /\ fault => faults < MaxFaults
       /\ faults' = IF fault THEN faults + 1 ELSE faults
       /\ cloud' = cloud1
       /\ nextId' = IF ok /\ t.op = "insert" /\ t.row.id = 0 THEN nextId + 1 ELSE nextId
       /\ entries' = Placed(es)
       /\ local' = IF outcome = "all" THEN local ELSE FieldsOfAll(entries1)
       /\ pending' = PlacedTasks(es, (pending \ {t}) \cup
                       (IF more THEN {SaveCall(next, FALSE, "import", Tail(t.rest))}
                        ELSE {}))
       /\ table' = IF more \/ (t.after = "import" /\ rejected) THEN table
                   ELSE renderEntries(entries')
       /\ summary' = IF more \/ (t.after = "import" /\ rejected) THEN summary
                     ELSE Summaries(entries')
       /\ IF t.after = "renderReset"
          THEN AfterReset
          ELSE UNCHANGED <<editingIndex, form, disp, deleteBtn>>
       /\ raised' = FALSE
       /\ submitted' = NoSubmit
       /\ ended' = <<[kind |-> "settled", op |-> t.op, after |-> t.after, stores |-> outcome,
                      result |-> IF rejected THEN "rejected" ELSE "resolved"]>>
       /\ UNCHANGED <<isSettingUpEdit, mock, overlap, tvars, kvars, uvars, bvars>>

RECURSIVE NotDated(_, _)
\* data.entries.filter(e => !existingDates.has(e.date))
NotDated(rows, dates) ==
  IF rows = <<>> THEN <<>>
  ELSE IF Head(rows).date \in dates THEN NotDated(Tail(rows), dates)
  ELSE <<Head(rows)>> \o NotDated(Tail(rows), dates)

\* importFromJson, the reader's onload with the entries of a backup file:
\* push the first new entry and await its saveEntry; Settle goes on with
\* the rest.
ImportFile(file) ==
  /\ raised' = FALSE
  /\ submitted' = NoSubmit
  /\ ended' = NoEnd
  /\ LET newEntries == NotDated(file, {entries[i].date : i \in 1..Len(entries)})
     IN IF newEntries = <<>>
        THEN UNCHANGED <<entries, pending>>
        ELSE /\ Len(entries) + Len(newEntries) <= MaxEntries
             /\ CanStartTask
             /\ InsertsIssued + Cardinality({i \in 1..Len(newEntries) : newEntries[i].id = 0})
                  <= MaxInserts
             /\ LET first == WithRef(Head(newEntries), NewRef)
                    es == Append(entries, first)
                IN /\ entries' = Placed(es)
                   /\ pending' = PlacedTasks(es, pending \cup
                        {SaveCall(first, FALSE, "import", Tail(newEntries))})
  /\ UNCHANGED <<editingIndex, isSettingUpEdit, form, disp, deleteBtn, table, cloud,
                 nextId, local>>
  /\ UNCHANGED <<faults, mock, overlap, tvars, kvars, wvars>>

ImportFromJson == \E file \in BackupFiles : ImportFile(file) /\ UNCHANGED bvars

\* 'Clear All Data', confirmed: entries = [], then saveEntries(), a name
\* this script does not define; the ReferenceError is caught and reported
\* as 'Failed to clear data', and nothing is drawn or reset.
ClearAllData ==
  /\ entries' = <<>>
  /\ pending' = PlacedTasks(<<>>, pending)
  /\ raised' = FALSE
  /\ submitted' = NoSubmit
  /\ ended' = <<[kind |-> "cleared", result |-> "failed"]>>
  /\ UNCHANGED <<editingIndex, isSettingUpEdit, form, disp, deleteBtn, table, cloud,
                 nextId, local>>
  /\ UNCHANGED <<faults, mock, overlap, tvars, kvars, wvars, bvars>>

\* JSON.stringify writes a NaN as null ([n |-> 0, d |-> -1] here); every
\* other number, the strings and the break rows come back from JSON.parse
\* as they were
JsonObject(e) ==
  [f \in DOMAIN e |->
     IF f \in {"net", "gross", "hourly", "milesStart", "milesEnd", "milesDriven",
               "gallons", "pricePerGal", "gasCost"} /\ isNaN(e[f])
     THEN [n |-> 0, d |-> -1] ELSE e[f]]

\* JSON.parse(JSON.stringify(es)): data.entries of the file exportToJson
\* writes and the array saveEntry keeps in localStorage, as they are read
JsonEntries(es) == [i \in 1..Len(es) |-> JsonObject(Fields(es[i]))]

RECURSIVE Reverse(_)
Reverse(q) == IF q = <<>> THEN <<>> ELSE Reverse(Tail(q)) \o <<Head(q)>>

RECURSIVE WithIds(_, _)
\* the rows of a bulk insert as the table returns them
WithIds(rows, k) ==
  IF rows = <<>> THEN <<>>
  ELSE IF Head(rows).id = 0
       THEN <<[Head(rows) EXCEPT !.id = k]>> \o WithIds(Tail(rows), k + 1)
       ELSE <<Head(rows)>> \o WithIds(Tail(rows), k)

CountNoId(rows) == Cardinality({i \in 1..Len(rows) : rows[i].id = 0})

\* the insert of saveAllEntries() succeeds: ids are left for the rows
TableTakes(rows) == nextId + CountNoId(rows) - 1 <= MaxInserts

\* loadEntries() up to renderEntries(): what entries becomes.  queried is
\* the rows the table returned (<<>>: none), stored the array parsed from
\* localStorage (<<>>: no item, no array or an empty one), moved what
\* saveAllEntries() left in entries after copying stored to the table.
LoadedRowsStoredFirst(reach, queried, stored, moved) ==
  IF stored # <<>> THEN stored
  ELSE IF reach THEN queried
  ELSE stored

LoadedRows(reach, queried, stored, moved) ==
  IF reach /\ queried # <<>> THEN queried
  ELSE IF reach /\ stored # <<>> THEN moved
  ELSE stored

\* The page is loaded again once no storage call is in flight, and
\* loadEntries() runs.  The table is reached or not; the mock client
\* answers every query with no rows.  The table's rows come newest first.
\* saveAllEntries() copies localStorage to the table when the table takes
\* the rows, and leaves entries and localStorage as they are when it does
\* not (the mock client, or more rows than MaxInserts).
Reload ==
  /\ pending = {}
  /\ \E reach \in BOOLEAN :
       LET found == IF mock THEN <<>> ELSE cloud
           stored == JsonEntries(local)
           migrated == WithIds(stored, nextId)
           migrate == reach /\ ~mock /\ found = <<>> /\ stored # <<>> /\ TableTakes(stored)
       IN /\ mock => reach
          /\ entries' = Numbered(LoadedRows(reach, Reverse(found), stored,
                                            IF migrate THEN migrated ELSE stored), 1)
          /\ cloud' = IF migrate THEN migrated ELSE cloud
          /\ nextId' = IF migrate THEN nextId + CountNoId(stored) ELSE nextId
          /\ local' = IF migrate THEN migrated ELSE local
          /\ ended' = <<[kind |-> "loaded", reach |-> reach, migrated |-> migrate]>>
  /\ table' = renderEntries(entries')
  /\ summary' = Summaries(entries')
  /\ editingIndex' = -1
  /\ isSettingUpEdit' = FALSE
  /\ form' = EmptyForm
  /\ disp' = ResetDisp
  /\ deleteBtn' = -1
  /\ raised' = FALSE
  /\ submitted' = NoSubmit
  /\ UNCHANGED <<pending>>
  /\ UNCHANGED <<faults, mock, overlap, tvars, kvars, uvars, bvars>>

Next ==
  \/ FillForm
  \/ SubmitBlocked
  \/ SubmitAdd
  \/ SubmitEdit
  \/ SubmitThrows
  \/ EditEntry
  \/ EditSetupDone
  \/ DeleteShift
  \/ Settle
  \/ ImportFromJson
  \/ ClearAllData
  \/ Reload

Spec == Init /\ [][Next]_vars

\* SpecForm: one record and one storage call at a time; the record is
\* built from anything typed, added, drawn, opened for editing and
\* submitted again.
SubmitFirst == entries = <<>> /\ pending = {} /\ SubmitAdd

SubmitAgain == pending = {} /\ SubmitEdit

SubmitWhenIdle == pending = {} /\ SubmitAdd

FormNext ==
  \/ TypeAnything
  \/ SubmitBlocked
  \/ SubmitFirst
  \/ SubmitAgain
  \/ EditEntry
  \/ EditSetupDone
  \/ Settle

SpecForm == Init /\ [][FormNext]_vars

\* the same with the 100 ms timer of editEntry firing whenever it is set
SpecFormFair == SpecForm /\ WF_vars(EditSetupDone)

----------------------------------------------------------------------------
(* SpecStore: the two stores, with the Supabase client or with the mock    *)
(* client: shifts are added and edited one storage call at a time, and the *)
(* page is loaded again                                                    *)

StoreInit ==
  /\ AppAtRest
  /\ mock \in BOOLEAN
  /\ overlap = MaxPending
  /\ tin = [start |-> FivePM, end |-> FivePM]
  /\ tParsed = 0
  /\ tDiff = 0
  /\ tDone = {}
  /\ WeekIdle

StoreNext ==
  \/ FillForm
  \/ SubmitWhenIdle
  \/ SubmitAgain
  \/ EditEntry
  \/ EditSetupDone
  \/ Settle
  \/ Reload

SpecStore == StoreInit /\ [][StoreNext]_vars

----------------------------------------------------------------------------
(* SpecRace: the user does not wait for a storage call to return before    *)
(* the next submit, Edit click or 'Delete Shift': up to MaxOverlap calls   *)
(* are in flight at once.                                                   *)

MaxOverlap == 2

RaceInit ==
  /\ AppAtRest
  /\ mock = FALSE
  /\ overlap = MaxOverlap
  /\ tin = [start |-> FivePM, end |-> FivePM]
  /\ tParsed = 0
  /\ tDiff = 0
  /\ tDone = {}
  /\ WeekIdle

RaceNext ==
  \/ FillForm
  \/ SubmitAdd
  \/ SubmitEdit
  \/ EditEntry
  \/ EditSetupDone
  \/ DeleteShift
  \/ Settle

SpecRace == RaceInit /\ [][RaceNext]_vars

----------------------------------------------------------------------------
(* SpecImport: backup and restore, one operation at a time: shifts are     *)
(* added, the collection is exported, cleared, and restored from the       *)
(* exported file or from an older backup                                   *)

\* exportToJson(): nothing for an empty collection
ExportToJson ==
  /\ pending = {}
  /\ Len(entries) # 0
  /\ backup' = JsonEntries(entries)
  /\ raised' = FALSE
  /\ submitted' = NoSubmit
  /\ ended' = NoEnd
  /\ UNCHANGED <<entries, editingIndex, isSettingUpEdit, form, disp, deleteBtn, table,
                 cloud, nextId, local, faults, pending>>
  /\ UNCHANGED <<restored, mock, overlap, tvars, kvars, wvars>>

\* importFromJson with the exported file or with an older backup
Restore ==
  /\ pending = {}
  /\ \E file \in BackupFiles \cup ({backup} \ {<<>>}) :
       /\ ImportFile(file)
       /\ restored' = <<[file |-> file, before |-> FieldsOfAll(entries)]>>
  /\ UNCHANGED backup

ClearWhenIdle == pending = {} /\ ClearAllData

ImportNext ==
  \/ FillForm
  \/ SubmitWhenIdle
  \/ Settle
  \/ ExportToJson
  \/ Restore
  \/ ClearWhenIdle

SpecImport == Init /\ [][ImportNext]_vars

----------------------------------------------------------------------------
(* SpecWorker: the service worker.  The script is installed over whatever  *)
(* caches an earlier version left, activated, and then answers the fetch   *)
(* events of the page while the server may go on to a newer version of the *)
(* files.  A body is modelled by the version of the file it is.            *)

CACHE_NAME == "dashtrack-cache-v1"

ASSETS_TO_CACHE ==
  {"/", "/index.html", "/style.css", "/app.js", "/manifest.json",
   "/icons/logo-192.png", "/icons/logo-512.png"}

MaxVersion == 2

\* what an earlier version of the worker may have left in a cache
OldContent == [u \in {"/index.html", "/old.js"} |-> 0]

OldNames == {CACHE_NAME, "dashtrack-cache-v0"}

Methods == {"GET", "POST"}

Urls == {"/", "/index.html", "/app.js", "/old.js", "/api/shifts"}

WorkerInit ==
  /\ AppIdle
  /\ tin = [start |-> FivePM, end |-> FivePM]
  /\ tParsed = 0
  /\ tDiff = 0
  /\ tDone = {}
  /\ behind = FALSE
  /\ wDate = NoDate
  /\ wNow = NoDate
  /\ wKeys = <<>>
  /\ SummaryIdle
  /\ backup = <<>>
  /\ restored = <<>>
  /\ worker = "installing"
  /\ cacheStore \in {[n \in names |-> OldContent] : names \in SUBSET OldNames}
  /\ server = 1
  /\ fetched = <<>>

\* cache.addAll(urls): every URL is fetched and stored
AddAll(content, urls, version) ==
  [u \in DOMAIN content \cup urls |-> IF u \in urls THEN version ELSE content[u]]

\* 'install': caches.open(CACHE_NAME) makes the cache if there is none, and
\* cache.addAll stores all the assets or, if one request fails, none; the
\* worker whose install promise rejects is discarded
Install ==
  /\ worker = "installing"
  /\ \E online \in BOOLEAN :
       LET opened == IF CACHE_NAME \in DOMAIN cacheStore THEN cacheStore[CACHE_NAME]
                     ELSE <<>>
       IN /\ cacheStore' =
               [n \in DOMAIN cacheStore \cup {CACHE_NAME} |->
                  IF n # CACHE_NAME THEN cacheStore[n]
                  ELSE IF online THEN AddAll(opened, ASSETS_TO_CACHE, server)
                  ELSE opened]
          /\ worker' = IF online THEN "installed" ELSE "redundant"
  /\ fetched' = <<>>
  /\ UNCHANGED <<server, avars, mock, overlap, tvars, wvars, bvars>>

\* 'activate': caches.keys(), filter(key => key !== CACHE_NAME), delete
Activate ==
  /\ worker = "installed"
  /\ cacheStore' = [n \in {key \in DOMAIN cacheStore : ~(key # CACHE_NAME)} |-> cacheStore[n]]
  /\ worker' = "activated"
  /\ fetched' = <<>>
  /\ UNCHANGED <<server, avars, mock, overlap, tvars, wvars, bvars>>

\* a newer version of the files is deployed
Deploy ==
  /\ server < MaxVersion
  /\ server' = server + 1
  /\ fetched' = <<>>
  /\ UNCHANGED <<worker, cacheStore, avars, mock, overlap, tvars, wvars, bvars>>

\* caches.match(url): the stored response of some cache that has one
\* (<<>>: undefined)
cachesMatch(url) ==
  IF \E n \in DOMAIN cacheStore : url \in DOMAIN cacheStore[n]
  THEN <<[from |-> "cache", of |-> url,
          body |-> cacheStore[CHOOSE n \in DOMAIN cacheStore : url \in DOMAIN cacheStore[n]][url]]>>
  ELSE <<>>

\* fetch(event.request): the server's file, or a rejection when offline
NetworkFetch(url, online) ==
  IF online THEN <<[from |-> "network", of |-> url, body |-> server]>> ELSE <<>>

\* the fetch listener asking the network before the cache
RespondNetworkFirst(method, url, online) ==
  IF method # "GET" THEN [intercepted |-> FALSE, answer |-> NetworkFetch(url, online)]
  ELSE [intercepted |-> TRUE,
        answer |-> IF NetworkFetch(url, online) # <<>> THEN NetworkFetch(url, online)
                   ELSE IF cachesMatch(url) # <<>> THEN cachesMatch(url)
                   ELSE cachesMatch("/index.html")]

\* the fetch listener: a request that is not a GET is left to the browser;
\* respondWith(cachedResponse || fetch(request).catch(() =>
\* caches.match('/index.html')))
Respond(method, url, online) ==
  IF method # "GET" THEN [intercepted |-> FALSE, answer |-> NetworkFetch(url, online)]
  ELSE [intercepted |-> TRUE,
        answer |-> IF cachesMatch(url) # <<>> THEN cachesMatch(url)
                   ELSE IF NetworkFetch(url, online) # <<>> THEN NetworkFetch(url, online)
                   ELSE cachesMatch("/index.html")]

\* a fetch event of a page the activated worker controls
Fetch ==
  /\ worker = "activated"
  /\ \E method \in Methods, url \in Urls, online \in BOOLEAN :
       fetched' = <<[method |-> method, url |-> url, online |-> online,
                     response |-> Respond(method, url, online)]>>
  /\ UNCHANGED <<worker, cacheStore, server, avars, mock, overlap, tvars, wvars, bvars>>

WorkerNext ==
  \/ Install
  \/ Activate
  \/ Deploy
  \/ Fetch

SpecWorker == WorkerInit /\ [][WorkerNext]_vars

----------------------------------------------------------------------------
(* SpecTime *)

TimeInit ==
  /\ AppIdle
  /\ \/ tin \in [start : TimeParts, end : {FivePM}]
     \/ tin \in [start : PairParts, end : PairParts]
  /\ tDone = {}
  /\ tParsed = 0
  /\ tDiff = 0
  /\ WeekIdle

\* parseTimeToMinutes on the start string
ParseStart ==
  /\ "parse" \notin tDone
  /\ tDone' = tDone \cup {"parse"}
  /\ tParsed' = parseTimeToMinutes(TimeText(tin.start))
  /\ UNCHANGED <<tin, tDiff, avars, wvars, bvars, kvars, mock, overlap>>

\* calculateTimeDifferenceMinutes on the pair
TimeDifference ==
  /\ "diff" \notin tDone
  /\ tDone' = tDone \cup {"diff"}
  /\ tDiff' = calculateTimeDifferenceMinutes(TimeText(tin.start), TimeText(tin.end))
  /\ UNCHANGED <<tin, tParsed, avars, wvars, bvars, kvars, mock, overlap>>

TimeNext ==
  \/ ParseStart
  \/ TimeDifference

SpecTime == TimeInit /\ [][TimeNext]_vars

----------------------------------------------------------------------------
(* SpecWeek: updateSummaries deciding whether one record is of the current *)
(* week, for every entry.date and every current date of WeekYear and of    *)
(* Margin days before and after it, in a zone behind UTC or not            *)

WeekYear == 2025

Margin == 14

WeekDates ==
  {DateOfDay(n) : n \in (DaysBeforeYear(WeekYear) - Margin)..(DaysBeforeYear(WeekYear + 1) + Margin - 1)}

WeekInit ==
  /\ AppIdle
  /\ tin = [start |-> FivePM, end |-> FivePM]
  /\ tParsed = 0
  /\ tDiff = 0
  /\ tDone = {}
  /\ behind \in BOOLEAN
  /\ wDate \in WeekDates
  /\ wNow = NoDate
  /\ wKeys = <<>>
  /\ SummaryIdle
  /\ backup = <<>>
  /\ restored = <<>>
  /\ WorkerIdle

\* what updateSummaries computes for the entry and for now, and the test
\* it makes of them
Compared(entryKey, currentKey) ==
  [entry |-> entryKey, current |-> currentKey, same |-> InCurrentWeek(entryKey, currentKey)]

\* updateSummaries reads the clock and compares the entry's week and year
\* with the current ones
CompareWeek ==
  /\ wKeys = <<>>
  /\ \E now \in WeekDates :
       /\ wNow' = now
       /\ wKeys' = <<Compared(WeekAndYear(DateFromText(wDate, behind)), WeekAndYear(now))>>
  /\ UNCHANGED <<behind, wDate, sEntries, showGrossValues, summary, avars, mock, overlap, tvars, kvars, bvars>>

WeekNext == CompareWeek

SpecWeek == WeekInit /\ [][WeekNext]_vars

----------------------------------------------------------------------------
(* SpecSummary: updateSummaries over collections of up to MaxRecords       *)
(* entries, run as the handlers run it: after the collection has changed   *)
(* and after the display mode has been switched                            *)

MaxRecords == 3

\* net, gross and workingMinutes of a shift, of an empty record and of a
\* short shift that lost money
SummaryValues ==
  {[net |-> Rat(2011, 20), gross |-> Rat(120, 1), workingMinutes |-> 480],
   [net |-> Zero, gross |-> Zero, workingMinutes |-> 0],
   [net |-> Rat(-21, 4), gross |-> Rat(20, 1), workingMinutes |-> 30]}

\* a Sunday in January and a day of the week that ends in the next year
SummaryDays == {[y |-> 2025, m |-> 1, d |-> 5], [y |-> 2025, m |-> 12, d |-> 30]}

SummaryRecords ==
  {[date |-> dt, net |-> v.net, gross |-> v.gross, workingMinutes |-> v.workingMinutes] :
     dt \in SummaryDays, v \in SummaryValues}

SummaryNows == {[y |-> 2025, m |-> 1, d |-> 8], [y |-> 2025, m |-> 12, d |-> 31]}

SummaryInit ==
  /\ AppIdle
  /\ tin = [start |-> FivePM, end |-> FivePM]
  /\ tParsed = 0
  /\ tDiff = 0
  /\ tDone = {}
  /\ behind \in BOOLEAN
  /\ wDate = NoDate
  /\ wNow = NoDate
  /\ wKeys = <<>>
  /\ SummaryIdle
  /\ backup = <<>>
  /\ restored = <<>>
  /\ WorkerIdle

\* the collection has changed to es and updateSummaries runs at some date
Summarise(es) ==
  \E now \in SummaryNows :
    /\ sEntries' = es
    /\ wNow' = now
    /\ summary' = updateSummaries(es, now, showGrossValues, behind)
    /\ UNCHANGED <<showGrossValues, behind, wDate, wKeys, avars, mock, overlap, tvars, kvars, bvars>>

\* an entry has been added (submit, import)
SummaryAdd ==
  /\ Len(sEntries) < MaxRecords
  /\ \E r \in SummaryRecords : Summarise(Append(sEntries, r))

\* an entry has been removed (delete, clear)
SummaryRemove ==
  \E i \in 1..Len(sEntries) : Summarise(Splice(sEntries, i - 1))

\* the display-mode checkbox: showGrossValues = checked; updateSummaries()
ToggleGross ==
  \E now \in SummaryNows :
    /\ showGrossValues' = ~showGrossValues
    /\ wNow' = now
    /\ summary' = updateSummaries(sEntries, now, showGrossValues', behind)
    /\ UNCHANGED <<sEntries, behind, wDate, wKeys, avars, mock, overlap, tvars, kvars, bvars>>

SummaryNext ==
  \/ SummaryAdd
  \/ SummaryRemove
  \/ ToggleGross

SpecSummary == SummaryInit /\ [][SummaryNext]_vars

----------------------------------------------------------------------------
(* Claims about the time functions (SpecTime) *)

\* C1: parseTimeToMinutes returns the minutes since midnight (12 AM -> 0,
\* 12 PM -> 720) for every well-formed 12-hour string and null for every
\* other string, 24-hour strings and hours outside 1..12 included.
C1_ParseTime ==
  "parse" \in tDone =>
     tParsed = (IF WellFormed(tin.start) THEN ClockMinutes(tin.start) ELSE Null)

\* a well-formed noon string was parsed to 720
C1_Witness ==
  /\ "parse" \in tDone
  /\ WellFormed(tin.start)
  /\ tin.start.hour.val = 12 /\ tin.start.period.pm /\ tin.start.minute.val = 0
  /\ tin.start.lead # <<>> /\ tin.start.period.txt = <<"p", "M">>
  /\ tParsed = 720

\* C2: calculateTimeDifferenceMinutes is 0 when an argument is empty or
\* invalid, else end - start plus 1440 when negative: always in 0..1439.
C2_TimeDifference ==
  "diff" \in tDone =>
     /\ tDiff \in 0..1439
     /\ tDiff =
          IF TimeText(tin.start) = <<>> \/ TimeText(tin.end) = <<>>
             \/ ~WellFormed(tin.start) \/ ~WellFormed(tin.end)
          THEN 0
          ELSE LET d == ClockMinutes(tin.end) - ClockMinutes(tin.start)
               IN IF d < 0 THEN d + 1440 ELSE d

\* 11:00 PM to 1:00 AM was computed as 120
C2_Witness ==
  /\ "diff" \in tDone
  /\ WellFormed(tin.start) /\ WellFormed(tin.end)
  /\ ClockMinutes(tin.start) = 23 * 60
  /\ ClockMinutes(tin.end) = 60
  /\ tDiff = 120

\* C3: every record of the in-memory collection, whatever has been added,
\* edited, deleted, imported or loaded, has workingMinutes equal to
\* max(shiftMinutes - breakMinutes, 0), and workingMinutes <= shiftMinutes.
C3_WorkingMinutes ==
  \A i \in 1..Len(entries) :
    /\ entries[i].workingMinutes =
         (IF entries[i].shiftMinutes - entries[i].breakMinutes > 0
          THEN entries[i].shiftMinutes - entries[i].breakMinutes
          ELSE 0)
    /\ entries[i].workingMinutes <= entries[i].shiftMinutes

\* a stored record whose break outlasts the shift, beside another record
C3_Witness ==
  /\ Len(entries) = 2
  /\ \E i \in 1..Len(entries) :
       /\ entries[i].id # 0
       /\ entries[i].breakMinutes > entries[i].shiftMinutes
       /\ entries[i].workingMinutes = 0

\* the duration of one stored break
BreakLength(b) == calculateTimeDifferenceMinutes(b.start, b.end)

\* C4: the record a submission builds has breakMinutes equal to the sum of
\* calculateTimeDifferenceMinutes over its stored breaks, and its stored
\* breaks are the rows of the form that have both a start and an end, in
\* the order of the rows.
C4_BreakMinutes ==
  \A i \in 1..Len(submitted) :
    LET rec == submitted[i].rec
        rows == submitted[i].form.breaks
        total[k \in 0..Len(rec.breaks)] ==
          IF k = 0 THEN 0 ELSE total[k - 1] + BreakLength(rec.breaks[k])
    IN /\ rec.breaks = SelectSeq(rows, LAMBDA b : b.start # <<>> /\ b.end # <<>>)
       /\ rec.breakMinutes = total[Len(rec.breaks)]

\* a submission whose form had a complete row and a row without an end
C4_Witness ==
  \E i \in 1..Len(submitted) :
    /\ Len(submitted[i].form.breaks) = 2
    /\ Len(submitted[i].rec.breaks) = 1
    /\ submitted[i].rec.breakMinutes = 30

\* C5: the record a submission builds keeps full precision: gallons is
\* (milesEnd - milesStart) / MPG and gasCost is gallons * pricePerGal.
C5_FullPrecision ==
  \A i \in 1..Len(submitted) :
    LET rec == submitted[i].rec
    IN /\ rec.gallons = Over(Minus(rec.milesEnd, rec.milesStart), MPG)
       /\ rec.gasCost = Times(rec.gallons, rec.pricePerGal)

\* C6: the record a submission builds has milesDriven equal to its
\* milesEnd - milesStart, neither clamped nor rounded.
C6_MilesDriven ==
  \A i \in 1..Len(submitted) :
    submitted[i].rec.milesDriven =
      Minus(submitted[i].rec.milesEnd, submitted[i].rec.milesStart)

\* C7: the record a submission builds, in add or in edit mode, has net
\* equal to its gross - gasCost; net may be negative.
C7_NetProfit ==
  \A i \in 1..Len(submitted) :
    submitted[i].rec.net = Minus(submitted[i].rec.gross, submitted[i].rec.gasCost)

\* a submission whose gas cost exceeds the pay
C7_Witness ==
  \E i \in 1..Len(submitted) :
    /\ Less(Zero, submitted[i].rec.gasCost)
    /\ Less(submitted[i].rec.net, Zero)

ZeroDollars == <<"$", "0", ".", "0", "0">>

\* C8: a shift with workingMinutes = 0 has no hourly rate of 0, neither in
\* the stored record nor in its row of the drawn list.
C8_HourlyPlaceholder ==
  /\ \A i \in 1..Len(entries) :
       entries[i].workingMinutes = 0 => entries[i].hourly # Zero
  /\ \A k \in 1..Len(table) :
       \A i \in 1..Len(entries) :
         (entries[i].ref = table[k].ref /\ entries[i].workingMinutes = 0)
           => table[k].hourly # ZeroDollars

\* C9: the pricePerGal of every record a submission builds is the default
\* constant, 3.272.
C9_DefaultPrice ==
  \A i \in 1..Len(submitted) :
    submitted[i].rec.pricePerGal = DEFAULT_GAS_PRICE

NumericFields ==
  {"gross", "net", "milesStart", "milesEnd", "milesDriven", "gallons",
   "pricePerGal", "gasCost", "hourly"}

\* the record of a submission holds no NaN, and 0 for each input that is
\* empty or not a number
InvalidInputsAreZero ==
  \A i \in 1..Len(submitted) :
    LET rec == submitted[i].rec
        f == submitted[i].form
    IN /\ \A n \in NumericFields : ~isNaN(rec[n])
       /\ isNaN(parseFloat(f.gross)) => rec.gross = Zero
       /\ isNaN(parseCommaNumber(f.milesStart)) => rec.milesStart = Zero
       /\ isNaN(parseCommaNumber(f.milesEnd)) => rec.milesEnd = Zero

\* C10: a submission never raises, and the record it stores holds 0 for
\* each missing or invalid numeric input and no NaN.
C10_SubmitNeverRaises ==
  /\ ~raised
  /\ InvalidInputsAreZero

\* a submission with pay and odometer that are not numbers
InvalidInputsSubmitted ==
  \E i \in 1..Len(submitted) :
    /\ isNaN(parseFloat(submitted[i].form.gross))
    /\ isNaN(parseCommaNumber(submitted[i].form.milesStart))
    /\ submitted[i].rec.gross = Zero

\* C11: opening a record with Edit and submitting without changing any
\* field yields a record whose raw and derived fields (and id) are those of
\* the record before; so does doing it again.
C11_EditResubmit ==
  \A i \in 1..Len(submitted) :
    (/\ submitted[i].old # <<>>
     /\ submitted[i].form = EditForm(submitted[i].old[1]))
      => submitted[i].rec = submitted[i].old[1]

\* an unchanged record submitted from the edit form without a difference
C11_Unchanged ==
  \E i \in 1..Len(submitted) :
    /\ submitted[i].old # <<>>
    /\ submitted[i].form = EditForm(submitted[i].old[1])
    /\ submitted[i].rec = submitted[i].old[1]

\* this step is a submit processed in edit mode: one that replaced a record
\* or one that raised
EditSubmitStep ==
  raised' \/ (submitted' # NoSubmit /\ submitted'[1].old # <<>>)

\* this step put the entry built from the form in place of the record at
\* index, under that record's id, left the rest of the collection as it
\* was and left edit mode
ReplacedAt(index) ==
  /\ index < Len(entries)
  /\ Len(entries') = Len(entries)
  /\ \A i \in 1..Len(entries) : i # index + 1 => entries'[i] = entries[i]
  /\ Fields(entries'[index + 1]) = [BuildEntry(form, disp) EXCEPT !.id = entries[index + 1].id]
  /\ editingIndex' = -1

\* C12: a submit in edit mode replaces exactly the record at editingIndex by
\* the newly derived record under the same id, changes neither the length
\* nor any other record nor the order, and leaves editingIndex at -1.
C12_EditReplaces == [][EditSubmitStep => ReplacedAt(editingIndex)]_vars

\* the same for the submits that find a record at editingIndex
C12_ReplacesWhenPresent ==
  [][(EditSubmitStep /\ editingIndex < Len(entries)) => ReplacedAt(editingIndex)]_vars

\* a record of a collection of two was replaced by a different one
C12_Replaced ==
  /\ Len(entries) = 2
  /\ submitted # NoSubmit
  /\ submitted[1].old # <<>>
  /\ submitted[1].rec # submitted[1].old[1]

\* C13: a confirmed 'Delete Shift' removes exactly the record at
\* editingIndex and leaves the other records as they were and in their
\* order, whatever Edit buttons were clicked before.
C13_DeleteRemovesEdited ==
  [][DeleteShift => entries' = Placed(Splice(entries, editingIndex))]_vars

\* the same for a form whose Delete button was made by the Edit click that
\* set editingIndex
C13_DeleteAfterOneEdit ==
  [][(DeleteShift /\ deleteBtn = editingIndex)
       => entries' = Placed(Splice(entries, editingIndex))]_vars

----------------------------------------------------------------------------
(* Claims about the week buckets (SpecWeek) *)

\* the Sunday that begins the calendar week of a date
WeekStart(dt) == DayNumber(dt) - getDay(DayNumber(dt))

\* the year of the Saturday that ends the calendar week of a date
AnchorYear(dt) == YearOfDay(WeekStart(dt) + 6)

\* C14: two dates of the same calendar week (Sunday to Saturday) get the
\* same (weekNumber, year) in updateSummaries, and the year is that of
\* the week's Saturday, also when the week spans December 31 / January 1.
C14_SameWeekSameBucket ==
  (wKeys # <<>> /\ WeekStart(wDate) = WeekStart(wNow))
    => /\ wKeys[1].same
       /\ wKeys[1].entry.year = AnchorYear(wDate)
       /\ wKeys[1].current.year = AnchorYear(wNow)

\* the same for dates whose week lies within one calendar year, in a zone
\* that is not behind UTC
C14_WithinOneYear ==
  (/\ wKeys # <<>>
   /\ WeekStart(wDate) = WeekStart(wNow)
   /\ ~behind
   /\ YearOfDay(WeekStart(wDate)) = AnchorYear(wDate))
    => /\ wKeys[1].same
       /\ wKeys[1].entry.year = AnchorYear(wDate)
       /\ wKeys[1].current.year = AnchorYear(wNow)

\* C15: two dates of different calendar weeks never get the same
\* (weekNumber, year) in updateSummaries.
C15_OtherWeekOtherBucket ==
  (wKeys # <<>> /\ WeekStart(wDate) # WeekStart(wNow)) => ~wKeys[1].same

\* two dates with the same week number in different years are told apart
C15_SameNumberOtherYear ==
  (/\ wKeys # <<>>
   /\ wKeys[1].entry.week = wKeys[1].current.week
   /\ wKeys[1].entry.year # wKeys[1].current.year)
    => ~wKeys[1].same

----------------------------------------------------------------------------
(* Claims about the summaries (SpecSummary) *)

\* the entries whose week and year are those of the date updateSummaries
\* ran at
OfCurrentWeek(es) ==
  SelectSeq(es, LAMBDA r : /\ WeekAndYear(DateFromText(r.date, behind)).week # NaNDate
                           /\ WeekAndYear(DateFromText(r.date, behind)) = WeekAndYear(wNow))

RECURSIVE SumOfNet(_)
SumOfNet(es) == IF es = <<>> THEN Zero ELSE Plus(SumOfNet(Tail(es)), Head(es).net)

RECURSIVE SumOfGross(_)
SumOfGross(es) == IF es = <<>> THEN Zero ELSE Plus(SumOfGross(Tail(es)), Head(es).gross)

RECURSIVE SumOfMinutes(_)
SumOfMinutes(es) ==
  IF es = <<>> THEN 0 ELSE SumOfMinutes(Tail(es)) + Head(es).workingMinutes

\* C16: the current-week net and the current-week gross are the sums of net
\* and of gross over exactly the entries whose (week, year) is that of the
\* current date, each summed on its own, and the one of the display mode
\* is the one shown.
C16_WeekSums ==
  summary.sums # <<>> =>
    /\ summary.sums[1].weekNet = SumOfNet(OfCurrentWeek(sEntries))
    /\ summary.sums[1].weekGross = SumOfGross(OfCurrentWeek(sEntries))
    /\ summary.week = <<"$">> \o ToFixed(IF showGrossValues
                                         THEN SumOfGross(OfCurrentWeek(sEntries))
                                         ELSE SumOfNet(OfCurrentWeek(sEntries)), 2)

\* three entries, some but not all of them of the current week, with week
\* sums of net and gross that differ
C16_Witness ==
  /\ Len(sEntries) = 3
  /\ Len(OfCurrentWeek(sEntries)) = 2
  /\ summary.sums # <<>>
  /\ summary.sums[1].weekNet = Rat(1906, 20)
  /\ summary.sums[1].weekGross = Rat(140, 1)
  /\ summary.sums[1].totalGross = Rat(260, 1)

\* the average hourly text the claim describes
AverageOf(total, minutes) ==
  IF minutes = 0 THEN Dash
  ELSE <<"$">> \o ToFixed(Over(Times(total, FromInt(60)), FromInt(minutes)), 2)

\* C17: the all-time net and gross are the sums over every entry, and the
\* average hourly is total / (totalWorkingMinutes / 60) over all entries,
\* the dash when totalWorkingMinutes is 0.
C17_Totals ==
  summary.sums # <<>> =>
    /\ summary.sums[1].totalNet = SumOfNet(sEntries)
    /\ summary.sums[1].totalGross = SumOfGross(sEntries)
    /\ summary.sums[1].totalMinutes = SumOfMinutes(sEntries)
    /\ summary.overall = <<"$">> \o ToFixed(IF showGrossValues THEN SumOfGross(sEntries)
                                            ELSE SumOfNet(sEntries), 2)
    /\ summary.avg = AverageOf(IF showGrossValues THEN SumOfGross(sEntries)
                               ELSE SumOfNet(sEntries),
                               SumOfMinutes(sEntries))

\* 95.30 net in 510 minutes shown as $11.21 an hour
C17_Witness ==
  /\ Len(sEntries) = 2
  /\ ~showGrossValues
  /\ summary.sums # <<>>
  /\ summary.sums[1].totalMinutes = 510
  /\ summary.overall = <<"$", "9", "5", ".", "3", "0">>
  /\ summary.avg = <<"$", "1", "1", ".", "2", "1">>

\* entries without working time: totals shown, the average a dash
C17_NoMinutes ==
  /\ Len(sEntries) = 2
  /\ summary.sums # <<>>
  /\ summary.sums[1].totalMinutes = 0
  /\ summary.overall = <<"$", "0", ".", "0", "0">>
  /\ summary.avg = Dash

\* C18: with an empty collection updateSummaries sets the three summaries
\* to the dash, at any current date and in either display mode.
C18_EmptyCollection ==
  sEntries = <<>> =>
    /\ summary.week = Dash
    /\ summary.overall = Dash
    /\ summary.avg = Dash

\* updateSummaries has run on the empty collection in gross mode
C18_Witness ==
  /\ sEntries = <<>>
  /\ wNow # NoDate
  /\ showGrossValues
  /\ summary.week = Dash
  /\ summary.avg = Dash

----------------------------------------------------------------------------
(* Claims about backup and restore (SpecImport) *)

DatesOf(rows) == {rows[i].date : i \in 1..Len(rows)}

ImportTasks(ts) == {t \in ts : t.after = "import"}

\* this step is the settling of a saveEntry call the import awaited
ImportSettles == ImportTasks(pending) # {} /\ pending' # pending

\* this step is the last one of an import: the loop is left, or the import
\* found nothing to add
ImportEnds ==
  \/ ImportTasks(pending) # {} /\ ImportTasks(pending') = {}
  \/ Restore /\ pending' = {}

\* the records the last import met are where they were, as they were, and
\* what follows them are records of the file's dates that the collection
\* did not hold
Merged ==
  /\ Len(entries) >= Len(restored[1].before)
  /\ \A i \in 1..Len(restored[1].before) : Fields(entries[i]) = restored[1].before[i]
  /\ \A i \in (Len(restored[1].before) + 1)..Len(entries) :
       entries[i].date \in DatesOf(restored[1].file) \ DatesOf(restored[1].before)

\* importing the file of the last import again would add nothing
NothingLeft == NotDated(restored[1].file, DatesOf(entries)) = <<>>

\* C19: a restore adds an incoming record only if the collection held no
\* record of its date, leaves the records the collection held unmodified
\* and in place, and once it has ended a second restore of the same
\* backup adds nothing.
C19_RestoreMerges ==
  [][/\ ((Restore \/ ImportSettles) => Merged')
     /\ (ImportEnds => NothingLeft')]_vars

\* the same while no store has failed
C19_MergesWithoutFault ==
  [][/\ (faults' = 0 /\ (Restore \/ ImportSettles)) => Merged'
     /\ (faults' = 0 /\ ImportEnds) => NothingLeft']_vars

\* a backup of two shifts restored into a collection that held one of
\* their dates: one record added behind the one that was there
C19_MergedOne ==
  /\ restored # <<>>
  /\ pending = {}
  /\ faults = 0
  /\ Len(restored[1].file) = 2
  /\ Len(restored[1].before) = 1
  /\ Len(entries) = 2
  /\ Merged
  /\ NothingLeft

\* the collection holds the records of the file, one for one and in order,
\* each with every field the file gives it (id 0 stands for no id field)
Reproduces(file) ==
  /\ Len(entries) = Len(file)
  /\ \A i \in 1..Len(file) :
       \A f \in DOMAIN file[i] :
         (f = "id" /\ file[i].id = 0) \/ Fields(entries[i])[f] = file[i][f]

\* C20: restoring the exported backup into an empty collection gives the
\* records of the backup, every field, in their order; restoring it into
\* the collection it was exported from changes nothing.
C20_RoundTrip ==
  [][/\ ((ImportEnds /\ restored'[1].file = backup /\ restored'[1].before = <<>>)
           => Reproduces(backup)')
     /\ ((Restore /\ restored'[1].file = backup /\ FieldsOfAll(entries) = backup)
           => UNCHANGED <<entries, pending, cloud, nextId, local, table>>)]_vars

\* the same while no store has failed
C20_RoundTripWithoutFault ==
  [][/\ ((faults' = 0 /\ ImportEnds /\ restored'[1].file = backup
          /\ restored'[1].before = <<>>)
           => Reproduces(backup)')
     /\ ((faults' = 0 /\ Restore /\ restored'[1].file = backup
          /\ FieldsOfAll(entries) = backup)
           => UNCHANGED <<entries, pending, cloud, nextId, local, table>>)]_vars

\* two shifts exported, cleared and restored from the backup
C20_Restored ==
  /\ Len(backup) = 2
  /\ restored # <<>>
  /\ restored[1].file = backup
  /\ restored[1].before = <<>>
  /\ pending = {}
  /\ faults = 0
  /\ Reproduces(backup)


----------------------------------------------------------------------------
(* Claims about storage failures (Spec) *)

\* this step is the end of a saveEntry call
SaveSettled ==
  /\ ended' # NoEnd
  /\ ended'[1].kind = "settled"
  /\ ended'[1].op # "delete"

\* every record the collection held before this step is still in its place
RecordsKept ==
  /\ Len(entries') >= Len(entries)
  /\ FieldsOfAll(SubSeq(entries', 1, Len(entries))) \in
       {FieldsOfAll(entries)} \cup
       {FieldsOfAll(Assigned(entries, r, [entries[r] EXCEPT !.id = nextId])) :
          r \in 1..Len(entries)}

\* after this step the list and the summaries show the collection, unless
\* an import is still going through its file
Redrawn ==
  (\A t \in pending' : t.after # "import") =>
     /\ table' = renderEntries(entries')
     /\ summary' = Summaries(entries')

\* C21: a storage failure during a save reaches the caller of saveEntry as
\* a result that differs from success (a rejection), and it is not fatal:
\* every record stays in the collection and the list and the summaries are
\* drawn again.
C21_FailureSurfaced ==
  [][(SaveSettled /\ ended'[1].stores # "ok")
       => (ended'[1].result = "rejected" /\ RecordsKept /\ Redrawn)]_vars

\* the part that holds: a save the submit handler started and that was
\* rejected leaves the records in place and is followed by a redraw
C21_SubmitSurvivesRejection ==
  [][(SaveSettled /\ ended'[1].result = "rejected" /\ ended'[1].after = "render")
       => (RecordsKept /\ Redrawn)]_vars

\* a save of the submit handler has been rejected with a record in the
\* collection
C21_Rejected ==
  /\ ended # NoEnd
  /\ ended[1].kind = "settled"
  /\ ended[1].result = "rejected"
  /\ ended[1].after = "render"
  /\ entries # <<>>


----------------------------------------------------------------------------
(* Claims about the two stores (SpecStore) *)

\* C22: when the table call of saveEntry fails, or the client is the mock
\* (whose table calls always fail), saveEntry writes the whole collection to
\* localStorage and is fulfilled; it rejects exactly when the localStorage
\* write fails as well, and then localStorage keeps what it had.
C22_LocalFallback ==
  [][SaveSettled =>
       /\ mock => ended'[1].stores # "ok"
       /\ ended'[1].stores = "cloud" =>
            (local' = FieldsOfAll(entries') /\ ended'[1].result = "resolved")
       /\ ended'[1].stores = "ok" => ended'[1].result = "resolved"
       /\ ended'[1].stores = "all" => (local' = local /\ ended'[1].result = "rejected")]_vars

\* with the mock client a second shift has been saved: localStorage holds
\* both records and the save was fulfilled
C22_MockFallback ==
  /\ mock
  /\ ended # NoEnd
  /\ ended[1].kind = "settled"
  /\ ended[1].stores = "cloud"
  /\ ended[1].result = "resolved"
  /\ Len(entries) = 2
  /\ local = FieldsOfAll(entries)


\* this step is a run of loadEntries
LoadStep == ended' # NoEnd /\ ended'[1].kind = "loaded"

\* the records of rows with their ids left out
WithoutIds(rows) == [i \in 1..Len(rows) |-> [rows[i] EXCEPT !.id = 0]]

\* C23: loadEntries always ends with the list and the summaries drawn, and
\* fills the collection by precedence: the rows of the table (newest first)
\* if the query succeeds with at least one row; the localStorage array if
\* the query succeeds with no row, and that array is then copied to the
\* table; the localStorage array, or nothing, if the table is not reached.
C23_LoadPrecedence ==
  [][LoadStep =>
       /\ table' = renderEntries(entries')
       /\ summary' = Summaries(entries')
       /\ (ended'[1].reach /\ ~mock /\ cloud # <<>>) =>
            (FieldsOfAll(entries') = Reverse(cloud) /\ cloud' = cloud)
       /\ (ended'[1].reach /\ (mock \/ cloud = <<>>)) =>
            WithoutIds(FieldsOfAll(entries')) = WithoutIds(local)
       /\ (ended'[1].reach /\ ~mock /\ cloud = <<>> /\ local # <<>> /\ TableTakes(local)) =>
            (cloud' = FieldsOfAll(entries') /\ \A i \in 1..Len(cloud') : cloud'[i].id # 0)
       /\ ~ended'[1].reach => FieldsOfAll(entries') = local]_vars

\* loadEntries found the table empty and a record in localStorage, and has
\* copied it to the table
C23_Migrated ==
  /\ ended # NoEnd
  /\ ended[1].kind = "loaded"
  /\ ended[1].migrated
  /\ cloud # <<>>
  /\ FieldsOfAll(entries) = cloud


----------------------------------------------------------------------------
(* Claims about the service worker (SpecWorker) *)

\* C24: the worker answers every GET cache-first: the cached response if
\* there is one, else the network's response, else (the network request
\* failed) the cached /index.html; a request that is not a GET is not
\* intercepted; and once the worker is activated 'dashtrack-cache-v1' is
\* the only cache.
C24_CacheFirst ==
  /\ worker = "activated" => DOMAIN cacheStore = {"dashtrack-cache-v1"}
  /\ fetched # <<>> =>
       LET f == fetched[1]
           cache == cacheStore["dashtrack-cache-v1"]
       IN /\ f.method # "GET" => ~f.response.intercepted
          /\ f.method = "GET" =>
               /\ f.response.intercepted
               /\ f.response.answer =
                    IF f.url \in DOMAIN cache
                    THEN <<[from |-> "cache", of |-> f.url, body |-> cache[f.url]]>>
                    ELSE IF f.online
                    THEN <<[from |-> "network", of |-> f.url, body |-> server]>>
                    ELSE <<[from |-> "cache", of |-> "/index.html",
                            body |-> cache["/index.html"]]>>

\* offline, a GET of a URL that is not cached was answered with the
\* /index.html stored at install time, which the server has replaced since
C24_OfflineIndex ==
  /\ fetched # <<>>
  /\ fetched[1].method = "GET"
  /\ fetched[1].url = "/api/shifts"
  /\ ~fetched[1].online
  /\ server = 2
  /\ fetched[1].response.answer = <<[from |-> "cache", of |-> "/index.html", body |-> 1]>>


----------------------------------------------------------------------------
(* Claims about the interleaving of the handlers (Spec) *)

\* C25: after every change of the collection, whether its storage call
\* succeeds or fails, the list and the summaries are computed again from
\* the whole collection: once no call is pending they show the records now
\* in memory.
C25_DisplayFollows ==
  pending = {} => (table = renderEntries(entries) /\ summary = Summaries(entries))

\* the part that holds: the end of every save and delete that the submit
\* handler or the Delete Shift button started, failed or not, draws both
C25_SubmitAndDeleteRedraw ==
  [][(ended' # NoEnd /\ ended'[1].kind = "settled" /\ ended'[1].after # "import")
       => (table' = renderEntries(entries') /\ summary' = Summaries(entries'))]_vars


----------------------------------------------------------------------------
(* C26 *)

\* a step of the submit handler: it returned early, stored a record or threw
SubmitStep ==
  \/ ended' # NoEnd /\ ended'[1].kind = "blocked"
  \/ submitted' # NoSubmit
  \/ raised'

\* the time typed is not empty and parseTimeToMinutes rejects it
TimeRejected(value) == value # <<>> /\ parseTimeToMinutes(value) = Null

\* the time typed holds more than white space and parseTimeToMinutes rejects it
TimeRefused(value) == Trim(value) # <<>> /\ parseTimeToMinutes(value) = Null

\* C26 as stated: a submit that arrives while isSettingUpEdit is true, or
\* with a non-empty start or end time that parseTimeToMinutes rejects, leaves
\* the collection, editingIndex and the persisted data unchanged, and
\* isSettingUpEdit is eventually reset after every editEntry call.
C26_BlockedSubmit ==
  /\ [][(SubmitStep /\ (isSettingUpEdit \/ TimeRejected(form.start) \/ TimeRejected(form.end)))
          => UNCHANGED <<entries, editingIndex, cloud, local, pending>>]_vars
  /\ (isSettingUpEdit ~> ~isSettingUpEdit)

\* C26 amended: a submit that arrives while isSettingUpEdit is true, or
\* with a start or end time that holds more than white space and that
\* parseTimeToMinutes rejects, leaves the collection, editingIndex and the
\* persisted data unchanged, and isSettingUpEdit is eventually reset after
\* every editEntry call.
C26_RefusedSubmit ==
  /\ [][(SubmitStep /\ (isSettingUpEdit \/ TimeRefused(form.start) \/ TimeRefused(form.end)))
          => UNCHANGED <<entries, editingIndex, cloud, local, pending>>]_vars
  /\ (isSettingUpEdit ~> ~isSettingUpEdit)

\* a submit with the 24-hour start time has just been turned away, with
\* edit mode not being set up
C26_TimeTurnedAway ==
  /\ ended # NoEnd /\ ended[1].kind = "blocked"
  /\ ~isSettingUpEdit
  /\ TimeRefused(form.start)
  /\ entries = <<>>


----------------------------------------------------------------------------
(* C27 *)

\* C27: whenever a submit is processed, editingIndex is -1 or the index of
\* a record in the collection, so a submit in edit mode never reads a
\* missing record.
C27_EditingIndexInRange ==
  [][(submitted' # NoSubmit \/ raised')
       => /\ editingIndex = -1 \/ (editingIndex >= 0 /\ editingIndex < Len(entries))
          /\ ~raised']_vars


----------------------------------------------------------------------------
(* C28 *)

\* the deleteEntry call of a 'Delete Shift' is still awaited
DeletePending == \E t \in pending : t.op = "delete"

\* the k-th drawn row shows the record the collection holds at its index,
\* if it holds one there
RowShows(k) ==
  table[k].index < Len(entries) => renderEntries(entries)[k] = table[k]

\* C28: a click on the Edit button of a drawn row opens the record shown
\* in that row, also while the storage call of an earlier deletion is
\* pending and the table has not been drawn again.
C28_RowActsOnItsRecord ==
  [][\A k \in 1..Len(table) : (DeletePending /\ EditRow(k)) => RowShows(k)]_vars


----------------------------------------------------------------------------
(* C29 *)

\* the confirmed clear-all has just ended
ClearEnded == ended' # NoEnd /\ ended'[1].kind = "cleared"

\* C29: clear-all is all-or-nothing: when it ends in 'Failed to clear
\* data' the collection is what it was before the attempt, and when it
\* succeeds the collection and both stores are empty.
C29_ClearAllOrNothing ==
  [][ClearEnded =>
       IF ended'[1].result = "failed"
       THEN entries' = entries
       ELSE entries' = <<>> /\ cloud' = <<>> /\ local' = <<>>]_vars


----------------------------------------------------------------------------
(* C30 *)

\* the table holds exactly one row for each record of the collection, with
\* the record's fields, and no other row
TableMatches ==
  /\ Len(cloud) = Len(entries)
  /\ \A i \in 1..Len(entries) :
       /\ entries[i].id # 0
       /\ \A j \in 1..Len(entries) : entries[j].id = entries[i].id => j = i
       /\ \E k \in 1..Len(cloud) : cloud[k] = Fields(entries[i])

\* C30: once every pending save and delete has completed and no storage
\* call has failed, the table holds exactly one row for each record of
\* the collection and no other row, also when a record was edited or
\* deleted while its first insert was in flight.
C30_TableMatchesCollection ==
  (pending = {} /\ faults = 0) => TableMatches

\* in SpecRace every storage call that does not reach the table is
\* counted in faults
C30_ErrorsCounted ==
  [][(ended' # NoEnd /\ ended'[1].kind = "settled" /\ ended'[1].stores # "ok")
       => faults' = faults + 1]_vars

====
